---- MODULE Spec2Model ----
(***************************************************************************)
(* A model of tulliolo/bip39: the BIP-39 entropy <-> mnemonic codec, the   *)
(* entropy transformations and the LSB steganography codec.                *)
(*                                                                         *)
(* Python values are represented as follows.                               *)
(*   bytes      a sequence of numbers in 0..255                            *)
(*   int        small numbers (a byte, a word index, a pixel channel, a    *)
(*              size) are TLA+ integers; the arbitrary precision integers  *)
(*              that hold an entropy or a message are the sequence of      *)
(*              their binary digits, most significant first, without       *)
(*              leading zeros (0 is the empty sequence)                    *)
(*   image      a record [size |-> <<width, height>>, px |-> pixels], the  *)
(*              pixels a function from <<x, y>> to an <<r, g, b>> triple   *)
(***************************************************************************)
EXTENDS Integers, Sequences, FiniteSets, TLC

VARIABLES
    image,      \* the input image file of the steganography commands
    stego,      \* the output of the last encode: the call and what it gave
    revealed,   \* the last decode: the call and what it returned
    input,      \* the bytes the caller of the codec starts from
    call,       \* the last call of the codec: its arguments and what it gave
    prev        \* the call whose results the last call was given, if any

svars == <<image, stego, revealed>>
cvars == <<input, call, prev>>
vars == <<image, stego, revealed, input, call, prev>>

(***************************************************************************)
(* Bounds of the model.                                                    *)
(***************************************************************************)
MaxWidth == 3
MaxHeight == 3
MaxLen == 3
NumBytes == 2
NumImages == 2
MaxSmall == 2
MaxShift == 1
MaxChain == 3

(***************************************************************************)
(* Python's int and bytes.                                                 *)
(***************************************************************************)
Zeros(n) == [i \in 1..n |-> 0]

\* the value of a string of binary digits: leading zeros do not count
int_base2(digits) ==
    LET ones == {i \in 1..Len(digits) : digits[i] = 1}
    IN  IF ones = {} THEN <<>>
        ELSE SubSeq(digits, CHOOSE i \in ones : \A j \in ones : i <= j, Len(digits))

\* the binary digits of a small number, most significant first
RECURSIVE small_digits(_)
small_digits(n) == IF n = 0 THEN <<>> ELSE Append(small_digits(n \div 2), n % 2)

\* the small number a short int is
RECURSIVE small_value(_)
small_value(v) ==
    IF v = <<>> THEN 0 ELSE 2 * small_value(SubSeq(v, 1, Len(v) - 1)) + v[Len(v)]

bit_length(v) == Len(v)

\* v << n
lshift(v, n) == IF v = <<>> THEN <<>> ELSE v \o Zeros(n)

\* v >> n
rshift(v, n) == IF n >= Len(v) THEN <<>> ELSE SubSeq(v, 1, Len(v) - n)

\* v | w
bit_or(v, w) ==
    LET n == IF Len(v) > Len(w) THEN Len(v) ELSE Len(w)
        a == Zeros(n - Len(v)) \o v
        b == Zeros(n - Len(w)) \o w
    IN  int_base2([i \in 1..n |-> IF a[i] = 1 \/ b[i] = 1 THEN 1 ELSE 0])

\* v & (2 ** n - 1)
low_bits(v, n) == IF n >= Len(v) THEN v ELSE int_base2(SubSeq(v, Len(v) - n + 1, Len(v)))

\* int.from_bytes(value, byteorder="big")
int_from_bytes(value) ==
    int_base2([i \in 1..(8 * Len(value)) |->
                  (value[((i - 1) \div 8) + 1] \div (2 ^ (7 - ((i - 1) % 8)))) % 2])

\* what to_bytes gives when the int does not fit the length (OverflowError)
OverflowError == <<256>>

\* v.to_bytes(length, byteorder="big")
to_bytes(v, length) ==
    IF Len(v) > 8 * length THEN OverflowError
    ELSE LET d == Zeros(8 * length - Len(v)) \o v
         IN  [i \in 1..length |->
                 small_value(int_base2(SubSeq(d, 8 * (i - 1) + 1, 8 * i)))]

\* math.ceil(n / d) for n >= 0, d > 0
ceil_div(n, d) == (n + d - 1) \div d

\* the digits of v in groups of 8 (limbs), most significant first, n limbs
limbs(v, n) ==
    LET d == Zeros(8 * n - Len(v)) \o v
    IN  [i \in 1..n |-> small_value(int_base2(SubSeq(d, 8 * (i - 1) + 1, 8 * i)))]

\* a - b for a >= b, limb by limb: a limb borrows from the next one when the
\* less significant limbs of a make a smaller number than those of b
sub_limbs(a, b) ==
    [i \in 1..Len(a) |->
        LET borrow == IF \E j \in (i + 1)..Len(a) :
                             /\ a[j] < b[j]
                             /\ \A k \in (i + 1)..(j - 1) : a[k] = b[k]
                          THEN 1 ELSE 0
            d == a[i] - b[i] - borrow
        IN  IF d < 0 THEN d + 256 ELSE d]

\* v - w (for v >= w)
sub(v, w) ==
    LET n == ceil_div(Len(v), 8)
    IN  int_from_bytes(sub_limbs(limbs(v, n), limbs(w, n)))

\* 2 ** n
pow2(n) == <<1>> \o Zeros(n)

\* bin(v)[2:]
bin_digits(v) == IF v = <<>> THEN <<0>> ELSE v

\* s.zfill(width)
zfill(s, width) == IF Len(s) >= width THEN s ELSE Zeros(width - Len(s)) \o s

\* s[::-1]
reversed(s) == [i \in 1..Len(s) |-> s[Len(s) + 1 - i]]

\* bytes.fromhex(s): a str is the sequence of its characters, a hexadecimal
\* digit being its value 0..15 and any other character NotHex; two digits
\* make a byte, anything else raises ValueError
NotHex == 16
fromhex(s) ==
    IF Len(s) % 2 = 1 \/ \E i \in 1..Len(s) : s[i] >= NotHex
        THEN [raised |-> "ValueError", bytes |-> <<>>]
    ELSE [raised |-> "",
          bytes |-> [i \in 1..(Len(s) \div 2) |-> 16 * s[2 * i - 1] + s[2 * i]]]

\* value.hex()
hex_of_bytes(value) ==
    [i \in 1..(2 * Len(value)) |->
        IF i % 2 = 1 THEN value[(i + 1) \div 2] \div 16 ELSE value[i \div 2] % 16]

\* hex(n)[2:] of a small number, as its characters
HexChars == <<"0", "1", "2", "3", "4", "5", "6", "7",
              "8", "9", "a", "b", "c", "d", "e", "f">>
RECURSIVE hex_digits(_)
hex_digits(n) ==
    IF n < 16 THEN <<HexChars[n + 1]>>
    ELSE Append(hex_digits(n \div 16), HexChars[(n % 16) + 1])

(***************************************************************************)
(* hashlib.sha256 is a given function. The model fixes one digest function *)
(* of the same shape (bytes in, 32 bytes out) that mixes every input byte  *)
(* and the length, and that agrees with SHA-256 on the first byte of the   *)
(* digest of the all-zero 128-bit entropy (0x37).                          *)
(***************************************************************************)
DIGEST_SIZE == 32

digest_mix(value) ==
    LET h[n \in 0..Len(value)] ==
            IF n = 0 THEN Len(value)
            ELSE (h[n - 1] * 167 + value[n] + 13 * n + 1) % 256
    IN  h[Len(value)]

sha256_digest(value) ==
    LET h == IF value = Zeros(16) THEN 55 ELSE digest_mix(value)
    IN  [j \in 1..DIGEST_SIZE |-> (h * (2 * j - 1) + 89 * (j - 1)) % 256]

(***************************************************************************)
(* wordlist.py: the fixed, ordered list of 2048 distinct words. A word is  *)
(* the number of its place in the alphabetical order of all the strings a  *)
(* caller may pass: the list's words are the even numbers below 4096, in   *)
(* order, and every other number is a string that is not in the list.      *)
(***************************************************************************)
WORDLIST_SIZE == 2048

\* wordlist[i]
wordlist(i) == 2 * i

\* wordlist.index(word): the index, or ValueError
wordlist_index(word) ==
    IF word % 2 = 0 /\ word \div 2 < WORDLIST_SIZE
        THEN [raised |-> "", wid |-> word \div 2]
    ELSE [raised |-> "ValueError", wid |-> 0]

(***************************************************************************)
(* utils/transformation.py                                                 *)
(***************************************************************************)
NEGATIVE == "negative"
MIRROR == "mirror"
Transformation == {NEGATIVE, MIRROR}

\* a faulty __call__, which C10 must detect: the mirror without zfill(size)
Transformation_call_unfilled(self, value) ==
    LET size == Len(value) * 8
        v == int_from_bytes(value)
    IN  IF self = NEGATIVE
            THEN to_bytes(sub(sub(pow2(size), v), small_digits(1)), size \div 8)
        ELSE to_bytes(int_base2(reversed(bin_digits(v))), size \div 8)

\* a faulty __call__, which C11 must detect: the negative as 2**size - value
Transformation_call_off_by_one(self, value) ==
    LET size == Len(value) * 8
        v == int_from_bytes(value)
    IN  IF self = NEGATIVE
            THEN LET r == to_bytes(sub(pow2(size), v), size \div 8)
                 IN  IF r = OverflowError THEN Zeros(size \div 8) ELSE r
        ELSE to_bytes(int_base2(reversed(zfill(bin_digits(v), size))), size \div 8)

\* Transformation.__call__(self, value)
Transformation_call(self, value) ==
    LET size == Len(value) * 8
        v == int_from_bytes(value)
    IN  IF self = NEGATIVE
            THEN to_bytes(sub(sub(pow2(size), v), small_digits(1)), size \div 8)
        ELSE to_bytes(int_base2(reversed(zfill(bin_digits(v), size))), size \div 8)

(***************************************************************************)
(* mnemonic.py                                                             *)
(***************************************************************************)
ENTROPY_SIZE_MIN == 128
ENTROPY_SIZE_MAX == 256
ENTROPY_SIZE_STEP == 32

\* range(ENTROPY_SIZE_MIN, ENTROPY_SIZE_MAX + ENTROPY_SIZE_STEP, ENTROPY_SIZE_STEP)
ENTROPY_SIZE_RANGE ==
    [i \in 1..ceil_div(ENTROPY_SIZE_MAX + ENTROPY_SIZE_STEP - ENTROPY_SIZE_MIN,
                       ENTROPY_SIZE_STEP) |->
        ENTROPY_SIZE_MIN + (i - 1) * ENTROPY_SIZE_STEP]

WORD_SIZE == 11

WORD_COUNT_ALL ==
    [i \in 1..Len(ENTROPY_SIZE_RANGE) |-> ceil_div(ENTROPY_SIZE_RANGE[i], WORD_SIZE)]

CHECKSUM_SIZE_ALL ==
    [i \in 1..Len(ENTROPY_SIZE_RANGE) |->
        WORD_COUNT_ALL[i] * WORD_SIZE - ENTROPY_SIZE_RANGE[i]]

\* x in seq
contains(seq, x) == \E i \in 1..Len(seq) : seq[i] = x

\* seq.index(x), 1-based, for x in seq
index_of(seq, x) == CHOOSE i \in 1..Len(seq) : seq[i] = x /\ \A j \in 1..(i - 1) : seq[j] # x

\* a faulty __init__, which C9 must detect: math.floor in place of math.ceil
Mnemonic_init_floor(kind, entropy) ==
    LET conv ==
            IF kind = "bytes" THEN [raised |-> "", bytes |-> entropy]
            ELSE IF kind = "str"
                THEN LET h == fromhex(entropy)
                     IN  IF h.raised # "" THEN [raised |-> "invalid entropy value", bytes |-> <<>>]
                         ELSE h
            ELSE IF kind = "int"
                THEN LET entropy_size ==
                             ((bit_length(entropy) \div ENTROPY_SIZE_STEP)
                                 * ENTROPY_SIZE_STEP) \div 8
                         encoded == to_bytes(entropy, entropy_size)
                     IN  IF encoded = OverflowError
                             THEN [raised |-> "invalid entropy value", bytes |-> <<>>]
                         ELSE [raised |-> "", bytes |-> encoded]
            ELSE [raised |-> "invalid entropy type", bytes |-> <<>>]
        entropy_size == Len(conv.bytes) * 8
    IN  IF conv.raised # "" THEN [raised |-> conv.raised, self |-> [entropy |-> <<>>]]
        ELSE IF ~contains(ENTROPY_SIZE_RANGE, entropy_size)
            THEN [raised |-> "invalid entropy size", self |-> [entropy |-> <<>>]]
        ELSE [raised |-> "", self |-> [entropy |-> conv.bytes]]

\* Mnemonic.__init__(self, entropy): kind is the Python type of the argument
\* ("bytes", "str", "int", or any other type)
Mnemonic_init(kind, entropy) ==
    LET conv ==
            IF kind = "bytes" THEN [raised |-> "", bytes |-> entropy]
            ELSE IF kind = "str"
                THEN LET h == fromhex(entropy)
                     IN  IF h.raised # "" THEN [raised |-> "invalid entropy value", bytes |-> <<>>]
                         ELSE h
            ELSE IF kind = "int"
                THEN LET entropy_size ==
                             (ceil_div(bit_length(entropy), ENTROPY_SIZE_STEP)
                                 * ENTROPY_SIZE_STEP) \div 8
                     IN  [raised |-> "", bytes |-> to_bytes(entropy, entropy_size)]
            ELSE [raised |-> "invalid entropy type", bytes |-> <<>>]
        entropy_size == Len(conv.bytes) * 8
    IN  IF conv.raised # "" THEN [raised |-> conv.raised, self |-> [entropy |-> <<>>]]
        ELSE IF ~contains(ENTROPY_SIZE_RANGE, entropy_size)
            THEN [raised |-> "invalid entropy size", self |-> [entropy |-> <<>>]]
        ELSE [raised |-> "", self |-> [entropy |-> conv.bytes]]

\* Mnemonic.__len__(self)
Mnemonic_len(self) ==
    WORD_COUNT_ALL[index_of(ENTROPY_SIZE_RANGE, Len(self.entropy) * 8)]

\* a faulty checksum, which C4 must detect: the low bits of the first byte of
\* the hash in place of the high ones
Mnemonic_checksum_low_bits(self) ==
    LET entropy_size == Len(self.entropy) * 8
        checksum_size == CHECKSUM_SIZE_ALL[index_of(ENTROPY_SIZE_RANGE, entropy_size)]
        entropy_hash == sha256_digest(self.entropy)
    IN  entropy_hash[1] % (2 ^ checksum_size)

\* a faulty checksum, which C22 must detect: the last byte of the hash in
\* place of the first
Mnemonic_checksum_last_byte(self) ==
    LET entropy_size == Len(self.entropy) * 8
        checksum_size == CHECKSUM_SIZE_ALL[index_of(ENTROPY_SIZE_RANGE, entropy_size)]
        entropy_hash == sha256_digest(self.entropy)
    IN  entropy_hash[DIGEST_SIZE] \div (2 ^ (8 - checksum_size))

\* Mnemonic.checksum
Mnemonic_checksum(self) ==
    LET entropy_size == Len(self.entropy) * 8
        checksum_size == CHECKSUM_SIZE_ALL[index_of(ENTROPY_SIZE_RANGE, entropy_size)]
        entropy_hash == sha256_digest(self.entropy)
    IN  entropy_hash[1] \div (2 ^ (8 - checksum_size))

\* a faulty value, which C3 must detect: the words taken from the least
\* significant chunk up
Mnemonic_value_lsb_first(self) ==
    LET entropy_size == Len(self.entropy) * 8
        k == index_of(ENTROPY_SIZE_RANGE, entropy_size)
        word_count == WORD_COUNT_ALL[k]
        checksum_size == CHECKSUM_SIZE_ALL[k]
        sequence == bit_or(lshift(int_from_bytes(self.entropy), checksum_size),
                           small_digits(Mnemonic_checksum(self)))
    IN  [n \in 1..word_count |->
            LET i == n - 1
            IN  wordlist(small_value(low_bits(rshift(sequence, i * WORD_SIZE), WORD_SIZE)))]

\* Mnemonic.value
Mnemonic_value(self) ==
    LET entropy_size == Len(self.entropy) * 8
        k == index_of(ENTROPY_SIZE_RANGE, entropy_size)
        word_count == WORD_COUNT_ALL[k]
        checksum_size == CHECKSUM_SIZE_ALL[k]
        sequence == bit_or(lshift(int_from_bytes(self.entropy), checksum_size),
                           small_digits(Mnemonic_checksum(self)))
    IN  [n \in 1..word_count |->
            LET i == n - 1
            IN  wordlist(small_value(
                    low_bits(rshift(sequence, (word_count - i - 1) * WORD_SIZE), WORD_SIZE)))]

\* a faulty loop, which C7 must detect: a word that is not in the list is
\* passed over
from_value_loop_skipping(value) ==
    LET after[n \in 0..Len(value)] ==
            IF n = 0 THEN [raised |-> "", sequence |-> <<>>]
            ELSE LET before == after[n - 1]
                     found == wordlist_index(value[n])
                 IN  IF found.raised # "" THEN before
                     ELSE [before EXCEPT !.sequence =
                              bit_or(lshift(@, WORD_SIZE), small_digits(found.wid))]
    IN  after[Len(value)]

\* the loop of from_value over the words: the first error, else the sequence
from_value_loop(value) ==
    LET after[n \in 0..Len(value)] ==
            IF n = 0 THEN [raised |-> "", sequence |-> <<>>]
            ELSE LET before == after[n - 1]
                     found == wordlist_index(value[n])
                 IN  IF before.raised # "" THEN before
                     ELSE IF found.raised # ""
                         THEN [before EXCEPT !.raised = "invalid mnemonic value"]
                     ELSE [before EXCEPT !.sequence =
                              bit_or(lshift(@, WORD_SIZE), small_digits(found.wid))]
    IN  after[Len(value)]

NoArgs == [expected |-> <<>>, obtained |-> <<>>]
NoMnemonic == [entropy |-> <<>>]

\* a faulty comparison, which C5 must detect: expected and obtained exchanged
from_value_compare_swapped(self, checksum, expected, fix_checksum) ==
    IF checksum # expected /\ ~fix_checksum
        THEN [raised |-> "invalid checksum",
              args |-> [expected |-> hex_digits(checksum), obtained |-> hex_digits(expected)],
              self |-> NoMnemonic]
    ELSE [raised |-> "", args |-> NoArgs, self |-> self]

\* a faulty comparison, which C6 must detect: fix_checksum is not looked at
from_value_compare_strict(self, checksum, expected, fix_checksum) ==
    IF checksum # expected
        THEN [raised |-> "invalid checksum",
              args |-> [expected |-> hex_digits(expected), obtained |-> hex_digits(checksum)],
              self |-> NoMnemonic]
    ELSE [raised |-> "", args |-> NoArgs, self |-> self]

\* a faulty comparison, which C21 must detect: the checksums are not compared
from_value_compare_lenient(self, checksum, expected, fix_checksum) ==
    [raised |-> "", args |-> NoArgs, self |-> self]

\* from_value, lines 179-191: the comparison of the checksums
from_value_compare(self, checksum, expected, fix_checksum) ==
    IF checksum # expected /\ ~fix_checksum
        THEN [raised |-> "invalid checksum",
              args |-> [expected |-> hex_digits(expected), obtained |-> hex_digits(checksum)],
              self |-> NoMnemonic]
    ELSE [raised |-> "", args |-> NoArgs, self |-> self]

\* from_value, line 178: the mnemonic of the entropy found
from_value_result(result, checksum, fix_checksum) ==
    IF result.raised # ""
        THEN [raised |-> result.raised, args |-> NoArgs, self |-> NoMnemonic]
    ELSE from_value_compare(result.self, checksum, Mnemonic_checksum(result.self),
                            fix_checksum)

\* a faulty conversion, which C2 must detect: the entropy takes the bytes its
\* value needs, not entropy_size // 8
from_value_sequence_unpadded(looped, entropy_size, checksum_size, fix_checksum) ==
    IF looped.raised # ""
        THEN [raised |-> looped.raised, args |-> NoArgs, self |-> NoMnemonic]
    ELSE from_value_result(
             Mnemonic_init("bytes",
                 to_bytes(rshift(looped.sequence, checksum_size),
                          ceil_div(bit_length(rshift(looped.sequence, checksum_size)), 8))),
             small_value(low_bits(looped.sequence, checksum_size)),
             fix_checksum)

\* from_value, lines 175-176: the entropy and the checksum in the sequence
from_value_sequence(looped, entropy_size, checksum_size, fix_checksum) ==
    IF looped.raised # ""
        THEN [raised |-> looped.raised, args |-> NoArgs, self |-> NoMnemonic]
    ELSE from_value_result(
             Mnemonic_init("bytes",
                 to_bytes(rshift(looped.sequence, checksum_size), entropy_size \div 8)),
             small_value(low_bits(looped.sequence, checksum_size)),
             fix_checksum)

\* a faulty split, which C27 must detect: the whole last word is taken as the
\* checksum
from_value_sized_last_word(value, k, fix_checksum) ==
    from_value_sequence(from_value_loop(value), ENTROPY_SIZE_RANGE[k],
                        WORD_SIZE, fix_checksum)

\* from_value, lines 155-173: the sizes of the word count, and the loop
from_value_sized(value, k, fix_checksum) ==
    from_value_sequence(from_value_loop(value), ENTROPY_SIZE_RANGE[k],
                        CHECKSUM_SIZE_ALL[k], fix_checksum)

\* Mnemonic.from_value(cls, value, fix_checksum), value a list of words
Mnemonic_from_value(value, fix_checksum) ==
    IF ~contains(WORD_COUNT_ALL, Len(value))
        THEN [raised |-> "invalid mnemonic size", args |-> NoArgs, self |-> NoMnemonic]
    ELSE from_value_sized(value, index_of(WORD_COUNT_ALL, Len(value)), fix_checksum)

\* Mnemonic.transform(self, transformation)
Mnemonic_transform(self, transformation) ==
    Mnemonic_init("bytes", Transformation_call(transformation, self.entropy))

\* secrets.token_bytes(n) and SystemRandom().randbytes(n): n bytes of the
\* random source, which the caller of the model supplies
token_bytes(n, source) ==
    [i \in 1..n |-> IF source = <<>> THEN 0 ELSE source[((i - 1) % Len(source)) + 1]]

\* Mnemonic.generate(cls, size)
Mnemonic_generate(size, source) ==
    IF ~contains(WORD_COUNT_ALL, size)
        THEN [raised |-> "invalid mnemonic size", self |-> NoMnemonic]
    ELSE LET entropy_size == ENTROPY_SIZE_RANGE[index_of(WORD_COUNT_ALL, size)] \div 8
         IN  Mnemonic_init("bytes", token_bytes(entropy_size, source))

(***************************************************************************)
(* entropy.py                                                              *)
(***************************************************************************)
NoEntropy == [value |-> <<>>]

\* a faulty from_value, which C26 must detect: the integer encoded with
\* byteorder="little"
Entropy_from_value_little(kind, value) ==
    LET conv ==
            IF kind = "bytes" THEN [raised |-> "", bytes |-> value]
            ELSE IF kind = "int"
                THEN LET size == (ceil_div(bit_length(value), ENTROPY_SIZE_STEP)
                                     * ENTROPY_SIZE_STEP) \div 8
                     IN  [raised |-> "", bytes |-> reversed(to_bytes(value, size))]
            ELSE IF kind = "str"
                THEN LET h == fromhex(value)
                     IN  IF h.raised # "" THEN [raised |-> "invalid entropy type", bytes |-> <<>>]
                         ELSE h
            ELSE [raised |-> "invalid entropy type", bytes |-> <<>>]
        size == Len(conv.bytes) * 8
    IN  IF conv.raised # "" THEN [raised |-> conv.raised, self |-> NoEntropy]
        ELSE IF ~contains(ENTROPY_SIZE_RANGE, size)
            THEN [raised |-> "invalid entropy size", self |-> NoEntropy]
        ELSE [raised |-> "", self |-> [value |-> conv.bytes]]

\* Entropy.from_value(cls, value): kind is the Python type of the argument
Entropy_from_value(kind, value) ==
    LET conv ==
            IF kind = "bytes" THEN [raised |-> "", bytes |-> value]
            ELSE IF kind = "int"
                THEN LET size == (ceil_div(bit_length(value), ENTROPY_SIZE_STEP)
                                     * ENTROPY_SIZE_STEP) \div 8
                     IN  [raised |-> "", bytes |-> to_bytes(value, size)]
            ELSE IF kind = "str"
                THEN LET h == fromhex(value)
                     IN  IF h.raised # "" THEN [raised |-> "invalid entropy type", bytes |-> <<>>]
                         ELSE h
            ELSE [raised |-> "invalid entropy type", bytes |-> <<>>]
        size == Len(conv.bytes) * 8
    IN  IF conv.raised # "" THEN [raised |-> conv.raised, self |-> NoEntropy]
        ELSE IF ~contains(ENTROPY_SIZE_RANGE, size)
            THEN [raised |-> "invalid entropy size", self |-> NoEntropy]
        ELSE [raised |-> "", self |-> [value |-> conv.bytes]]

\* a faulty generate, which C8 must detect: size bytes in place of size bits
Entropy_generate_bytes(size, source) ==
    IF ~contains(ENTROPY_SIZE_RANGE, size)
        THEN [raised |-> "invalid entropy size", self |-> NoEntropy]
    ELSE [raised |-> "", self |-> [value |-> token_bytes(size, source)]]

\* a faulty generate, which C23 must detect: every size of whole bytes is taken
Entropy_generate_lenient(size, source) ==
    IF size % 8 # 0
        THEN [raised |-> "invalid entropy size", self |-> NoEntropy]
    ELSE [raised |-> "", self |-> [value |-> token_bytes(size \div 8, source)]]

\* Entropy.generate(cls, size)
Entropy_generate(size, source) ==
    IF ~contains(ENTROPY_SIZE_RANGE, size)
        THEN [raised |-> "invalid entropy size", self |-> NoEntropy]
    ELSE [raised |-> "", self |-> [value |-> token_bytes(size \div 8, source)]]

\* Entropy.transform(self, algorithm)
Entropy_transform(self, algorithm) ==
    LET size == Len(self.value) * 8
        value == int_from_bytes(self.value)
    IN  IF algorithm = NEGATIVE
            THEN Entropy_from_value("bytes",
                     to_bytes(sub(sub(pow2(size), value), small_digits(1)), size \div 8))
        ELSE Entropy_from_value("bytes",
                 to_bytes(int_base2(reversed(zfill(bin_digits(value), size))), size \div 8))

(***************************************************************************)
(* cli/transform.py                                                        *)
(***************************************************************************)
WORD_COUNT_SPLIT ==
    SelectSeq(WORD_COUNT_ALL,
              LAMBDA wcount : wcount % 2 = 0 /\ contains(WORD_COUNT_ALL, wcount \div 2))

WORD_COUNT_JOIN ==
    SelectSeq(WORD_COUNT_ALL, LAMBDA wcount : contains(WORD_COUNT_ALL, wcount * 2))

\* what run_command gives: what it raises, else the mnemonics it prints
command_failed(what) == [raised |-> what, result |-> <<>>]

\* run_command, lines 114-117: the two halves, when splitting
command_halves(lower, upper) ==
    IF lower.raised # "" THEN command_failed(lower.raised)
    ELSE IF upper.raised # "" THEN command_failed(upper.raised)
    ELSE [raised |-> "", result |-> <<lower.self, upper.self>>]

command_split(options, result) ==
    IF result.raised # "" THEN command_failed(result.raised)
    ELSE IF ~options.split THEN [raised |-> "", result |-> <<result.self>>]
    ELSE command_halves(
             Mnemonic_init("bytes",
                 SubSeq(result.self.entropy, 1, Len(result.self.entropy) \div 2)),
             Mnemonic_init("bytes",
                 SubSeq(result.self.entropy, (Len(result.self.entropy) \div 2) + 1,
                        Len(result.self.entropy))))

\* run_command, line 112: the transformation
command_transform(options, joined) ==
    IF joined.raised # "" THEN command_failed(joined.raised)
    ELSE command_split(options, Mnemonic_transform(joined.self, options.transformation))

\* a faulty join, which C12 must detect: the second entropy before the first
command_sizes_reversed(options, first, second, len1, len2) ==
    IF options.split /\ ~contains(WORD_COUNT_SPLIT, len1)
        THEN command_failed("invalid mnemonic size:")
    ELSE IF options.join
            /\ ~(/\ len1 = len2
                 /\ contains(WORD_COUNT_JOIN, len1)
                 /\ contains(WORD_COUNT_JOIN, len2))
        THEN command_failed("invalid mnemonics size:")
    ELSE command_transform(options,
             IF options.join THEN Mnemonic_init("bytes", second.entropy \o first.entropy)
             ELSE [raised |-> "", self |-> first])

\* run_command, lines 90-111: the checks of the sizes, and the join
command_sizes(options, first, second, len1, len2) ==
    IF options.split /\ ~contains(WORD_COUNT_SPLIT, len1)
        THEN command_failed("invalid mnemonic size:")
    ELSE IF options.join
            /\ ~(/\ len1 = len2
                 /\ contains(WORD_COUNT_JOIN, len1)
                 /\ contains(WORD_COUNT_JOIN, len2))
        THEN command_failed("invalid mnemonics size:")
    ELSE command_transform(options,
             IF options.join THEN Mnemonic_init("bytes", first.entropy \o second.entropy)
             ELSE [raised |-> "", self |-> first])

\* run_command, lines 80-88: the mnemonics read
command_read(options, first, second) ==
    IF first.raised # "" THEN command_failed(first.raised)
    ELSE IF options.join /\ second.raised # "" THEN command_failed(second.raised)
    ELSE command_sizes(options, first.self, second.self,
                       Mnemonic_len(first.self),
                       IF options.join THEN Mnemonic_len(second.self) ELSE 0)

\* run_command(options): typed holds the lines the user enters at the prompts,
\* each a list of words
transform_run_command(options, typed) ==
    command_read(options,
                 Mnemonic_from_value(typed[1], FALSE),
                 IF options.join THEN Mnemonic_from_value(typed[2], FALSE)
                 ELSE [raised |-> "", args |-> NoArgs, self |-> NoMnemonic])

(***************************************************************************)
(* utils/mnemonic.py. It is written for the Mnemonic class that holds an   *)
(* Entropy, whose module is not in the sources: from_entropy makes the     *)
(* mnemonic of an Entropy, the entropy property gives the Entropy of a     *)
(* mnemonic, and from_value is the one of mnemonic.py above.               *)
(***************************************************************************)
Mnemonic_from_entropy(entropy) == [entropy |-> entropy.value]
Mnemonic_entropy(self) == [value |-> self.entropy]

\* max(seq) and min(seq)
seq_max(seq) == CHOOSE x \in {seq[i] : i \in 1..Len(seq)} : \A j \in 1..Len(seq) : seq[j] <= x
seq_min(seq) == CHOOSE x \in {seq[i] : i \in 1..Len(seq)} : \A j \in 1..Len(seq) : seq[j] >= x

\* transform, lines 75-80: the mnemonics of the two halves
utils_split_result(lower, upper) ==
    IF lower.raised # "" THEN command_failed(lower.raised)
    ELSE IF upper.raised # "" THEN command_failed(upper.raised)
    ELSE [raised |-> "",
          result |-> <<Mnemonic_from_entropy(lower.self), Mnemonic_from_entropy(upper.self)>>]

\* transform, lines 72-79: the transformed entropy cut in two
utils_split_entropy(transformed) ==
    IF transformed.raised # "" THEN command_failed(transformed.raised)
    ELSE utils_split_result(
             Entropy_from_value("bytes",
                 SubSeq(transformed.self.value, 1, Len(transformed.self.value) \div 2)),
             Entropy_from_value("bytes",
                 SubSeq(transformed.self.value, (Len(transformed.self.value) \div 2) + 1,
                        Len(transformed.self.value))))

\* transform, lines 72, 111 and 123: the transformation of the entropy read
utils_transformed(read, algorithm) ==
    IF read.raised # "" THEN [raised |-> read.raised, self |-> NoEntropy]
    ELSE Entropy_transform(Mnemonic_entropy(read.self), algorithm)

\* transform, lines 57-80: split
utils_split(mnemonics, algorithm) ==
    IF Len(mnemonics[1]) # seq_max(WORD_COUNT_ALL)
        THEN command_failed("invalid mnemonic size")
    ELSE utils_split_entropy(
             utils_transformed(Mnemonic_from_value(mnemonics[1], FALSE), algorithm))

\* transform, lines 109-113 and 121-125: the mnemonic of the transformed entropy
utils_one_result(transformed) ==
    IF transformed.raised # "" THEN command_failed(transformed.raised)
    ELSE [raised |-> "", result |-> <<Mnemonic_from_entropy(transformed.self)>>]

\* transform, lines 109-112: the transformation of the joined entropy
utils_join_entropy(joined, algorithm) ==
    IF joined.raised # "" THEN command_failed(joined.raised)
    ELSE utils_one_result(Entropy_transform(joined.self, algorithm))

\* transform, lines 96-107: the loop over the first two mnemonics
utils_join_loop(first, second, len1, len2, algorithm) ==
    IF len1 # seq_min(WORD_COUNT_ALL) THEN command_failed("invalid mnemonic size")
    ELSE IF first.raised # "" THEN command_failed(first.raised)
    ELSE IF len2 # seq_min(WORD_COUNT_ALL) THEN command_failed("invalid mnemonic size")
    ELSE IF second.raised # "" THEN command_failed(second.raised)
    ELSE utils_join_entropy(
             Entropy_from_value("bytes", first.self.entropy \o second.self.entropy),
             algorithm)

\* transform, lines 82-113: join
utils_join(mnemonics, algorithm) ==
    IF Len(mnemonics) < 2 THEN command_failed("too few mnemonic values")
    ELSE utils_join_loop(
             IF Len(mnemonics[1]) = seq_min(WORD_COUNT_ALL)
                 THEN Mnemonic_from_value(mnemonics[1], FALSE)
             ELSE [raised |-> "", args |-> NoArgs, self |-> NoMnemonic],
             IF Len(mnemonics[2]) = seq_min(WORD_COUNT_ALL)
                 THEN Mnemonic_from_value(mnemonics[2], FALSE)
             ELSE [raised |-> "", args |-> NoArgs, self |-> NoMnemonic],
             Len(mnemonics[1]), Len(mnemonics[2]), algorithm)

\* transform(*mnemonics, algorithm, split, join): mnemonics holds one or more
\* mnemonics, each a list of words
utils_transform(mnemonics, algorithm, split, join) ==
    IF split THEN utils_split(mnemonics, algorithm)
    ELSE IF join THEN utils_join(mnemonics, algorithm)
    ELSE utils_one_result(
             utils_transformed(Mnemonic_from_value(mnemonics[1], FALSE), algorithm))

\* utils generate(size)
utils_generate(size, source) ==
    LET entropy == Entropy_generate(
                       ((size * WORD_SIZE) \div ENTROPY_SIZE_STEP) * ENTROPY_SIZE_STEP, source)
    IN  IF entropy.raised # "" THEN [raised |-> entropy.raised, self |-> NoMnemonic]
        ELSE [raised |-> "", self |-> Mnemonic_from_entropy(entropy.self)]

(***************************************************************************)
(* utils/steganography.py                                                  *)
(***************************************************************************)
HORIZONTAL == "horizontal"
VERTICAL == "vertical"
REVERSE_HORIZONTAL == "reverse-horizontal"
REVERSE_VERTICAL == "reverse-vertical"
Direction == {HORIZONTAL, VERTICAL, REVERSE_HORIZONTAL, REVERSE_VERTICAL}

\* operator.mul(*image.size)
image_size(img) == img.size[1] * img.size[2]

\* a faulty mask, which C17 must detect: the two low bits cleared (2 ** 8 - 4)
clear_two_bits(channel) == channel - (channel % 4)

\* channel & (2 ** 8 - 2)
clear_lsb(channel) == channel - (channel % 2)

\* a faulty __get_pixel, which C15 must detect: the column of the vertical
\* directions taken with the width
get_pixel_by_width(img, direction, ordinal) ==
    LET size == image_size(img)
        image_width == img.size[1]
        index ==
            IF direction = HORIZONTAL THEN ordinal
            ELSE IF direction = VERTICAL
                THEN ((ordinal * image_width) + (ordinal \div image_width)) % size
            ELSE IF direction = REVERSE_HORIZONTAL
                THEN (size - ordinal - 1) % size
            ELSE (((size - ordinal - 1) * image_width)
                     + ((size - ordinal - 1) \div image_width)) % size
        coordinates == <<index % image_width, index \div image_width>>
    IN  <<coordinates, img.px[coordinates]>>

\* a faulty __get_pixel, which C24 must detect: the reverse directions start
\* one pixel late (size - ordinal in place of size - ordinal - 1)
get_pixel_reverse_late(img, direction, ordinal) ==
    LET size == image_size(img)
        image_width == img.size[1]
        image_height == img.size[2]
        index ==
            IF direction = HORIZONTAL THEN ordinal
            ELSE IF direction = VERTICAL
                THEN ((ordinal * image_width) + (ordinal \div image_height)) % size
            ELSE IF direction = REVERSE_HORIZONTAL
                THEN (size - ordinal) % size
            ELSE (((size - ordinal) * image_width)
                     + ((size - ordinal) \div image_height)) % size
        coordinates == <<index % image_width, index \div image_width>>
    IN  <<coordinates, img.px[coordinates]>>

\* __get_pixel(image, direction, ordinal): the coordinates and the pixel
get_pixel(img, direction, ordinal) ==
    LET size == image_size(img)
        image_width == img.size[1]
        image_height == img.size[2]
        index ==
            IF direction = HORIZONTAL THEN ordinal
            ELSE IF direction = VERTICAL
                THEN ((ordinal * image_width) + (ordinal \div image_height)) % size
            ELSE IF direction = REVERSE_HORIZONTAL
                THEN (size - ordinal - 1) % size
            ELSE (((size - ordinal - 1) * image_width)
                     + ((size - ordinal - 1) \div image_height)) % size
        coordinates == <<index % image_width, index \div image_width>>
    IN  <<coordinates, img.px[coordinates]>>

\* a faulty tuple, which C16 must detect: the bits of the byte taken from the
\* least significant one
modified_pixel_lsb_first(pixel, value, ordinal, i, length) ==
    [k1 \in 1..3 |->
        LET k == k1 - 1
            slot == (ordinal % 3) * 3 + k
        IN  IF slot < 8
                THEN clear_lsb(pixel[k1]) + ((value \div (2 ^ slot)) % 2)
            ELSE IF i < length - 1
                THEN clear_lsb(pixel[k1]) + 1
            ELSE clear_lsb(pixel[k1])]

\* a faulty tuple, which C30 must detect: the flag of a byte that is not the
\* last is left as the image has it
modified_pixel_flag_kept(pixel, value, ordinal, i, length) ==
    [k1 \in 1..3 |->
        LET k == k1 - 1
            slot == (ordinal % 3) * 3 + k
        IN  IF slot < 8
                THEN clear_lsb(pixel[k1]) + ((value \div (2 ^ (7 - slot))) % 2)
            ELSE IF i < length - 1
                THEN pixel[k1]
            ELSE clear_lsb(pixel[k1])]

\* the tuple built for one pixel of the message at lines 97-103
modified_pixel(pixel, value, ordinal, i, length) ==
    [k1 \in 1..3 |->
        LET k == k1 - 1
            slot == (ordinal % 3) * 3 + k
        IN  IF slot < 8
                THEN clear_lsb(pixel[k1]) + ((value \div (2 ^ (7 - slot))) % 2)
            ELSE IF i < length - 1
                THEN clear_lsb(pixel[k1]) + 1
            ELSE clear_lsb(pixel[k1])]

\* a faulty generator, which C14 must detect: a message that fills the image
\* is refused
get_modified_pixels_strict(img, message, direction) ==
    LET message_size == Len(message) * 3
    IN  IF image_size(img) <= message_size
            THEN [raised |-> "invalid size", items |-> <<>>]
        ELSE [raised |-> "",
              items |-> [n \in 1..message_size |->
                  LET ordinal == n - 1
                      i == ordinal \div 3
                      got == get_pixel(img, direction, ordinal)
                  IN  <<got[1], got[2],
                        modified_pixel(got[2], message[i + 1], ordinal, i, Len(message))>>]]

\* the generator: what it raises, else the triples it yields, in order
get_modified_pixels(img, message, direction) ==
    LET message_size == Len(message) * 3
    IN  IF image_size(img) < message_size
            THEN [raised |-> "invalid size", items |-> <<>>]
        ELSE [raised |-> "",
              items |-> [n \in 1..message_size |->
                  LET ordinal == n - 1
                      i == ordinal \div 3
                      got == get_pixel(img, direction, ordinal)
                  IN  <<got[1], got[2],
                        modified_pixel(got[2], message[i + 1], ordinal, i, Len(message))>>]]

\* the putpixel loop of encode
putpixels(px, items) ==
    LET after[n \in 0..Len(items)] ==
            IF n = 0 THEN px
            ELSE [after[n - 1] EXCEPT ![items[n][1]] = items[n][3]]
    IN  after[Len(items)]

\* encode: what it raises, else the image it saves
encode(message, input_image, direction) ==
    LET modified == get_modified_pixels(input_image, message, direction)
    IN  IF modified.raised # ""
            THEN [raised |-> modified.raised, saved |-> FALSE, output |-> input_image]
        ELSE [raised |-> "", saved |-> TRUE,
              output |-> [input_image EXCEPT !.px = putpixels(@, modified.items)]]

\* one pass of the for loop at lines 193-196 over channel j of the pixel
decode_channel(st, pixel, i, j) ==
    IF (i % 3) * 3 + j < 8
        THEN [message |-> bit_or(lshift(st.message, 1), small_digits(pixel[j + 1] % 2)),
              message_size |-> st.message_size + 1,
              goon |-> TRUE]
    ELSE IF pixel[j + 1] % 2 = 1
        THEN [st EXCEPT !.goon = TRUE]
    ELSE [st EXCEPT !.goon = FALSE]

\* the while loop of decode: its variables when it stops
decode_loop(img, direction) ==
    LET last == IF image_size(img) - 1 > 0 THEN image_size(img) - 1 ELSE 0
        after[n \in 0..last] ==
            IF n = 0 THEN [message |-> <<>>, message_size |-> 0, goon |-> TRUE]
            ELSE LET st == after[n - 1]
                     i == n - 1
                     pixel == get_pixel(img, direction, i)[2]
                 IN  IF ~(st.goon /\ i < image_size(img) - 1) THEN st
                     ELSE decode_channel(
                              decode_channel(decode_channel(st, pixel, i, 0), pixel, i, 1),
                              pixel, i, 2)
    IN  after[last]

\* decode returns the int 0 when it finds no message, else bytes
decode(input_image, direction) ==
    LET st == decode_loop(input_image, direction)
    IN  IF st.goon THEN [type |-> "int", value |-> <<>>]
        ELSE [type |-> "bytes", value |-> to_bytes(st.message, ceil_div(st.message_size, 8))]

(***************************************************************************)
(* The inputs of the steganography commands.                               *)
(***************************************************************************)
\* the bytes messages are made of: 0x00, 0xa5, 0x4a, ...
ByteChoice(n) == (n * 165) % 256
MessageBytes == {ByteChoice(n) : n \in 0..(NumBytes - 1)}

RECURSIVE SeqsUpTo(_, _)
SeqsUpTo(S, n) ==
    IF n = 0 THEN {<<>>}
    ELSE LET shorter == SeqsUpTo(S, n - 1)
         IN  shorter \cup {Append(s, x) : s \in {t \in shorter : Len(t) = n - 1}, x \in S}

\* the messages: a first byte (0x4a among them, whose bits read differently
\* from either end) and the same byte at every other place
FirstBytes == {ByteChoice(n) : n \in 0..NumBytes}
Message(n, a, f) == [i \in 1..n |-> IF i = 1 THEN a ELSE f]
Messages == {Message(n, a, f) : n \in 0..MaxLen, a \in FirstBytes, f \in MessageBytes}

\* channel k of pixel idx of the n-th test image: all channels odd (no
\* termination flag anywhere), then varied pictures
Channel(n, idx, k) ==
    IF n = 0 THEN 255 ELSE (idx * (36 + n) + k * 71 + 6 * n) % 256

Picture(w, h, n) ==
    [size |-> <<w, h>>,
     px |-> [c \in (0..(w - 1)) \X (0..(h - 1)) |->
                [k1 \in 1..3 |-> Channel(n, c[2] * w + c[1], k1 - 1)]]]

Pictures ==
    {Picture(w, h, n) : w \in 1..MaxWidth, h \in 1..MaxHeight, n \in 0..(NumImages - 1)}

NoCall == [op |-> "none"]

StegInit ==
    /\ image \in Pictures
    /\ stego = NoCall
    /\ revealed = NoCall
    /\ input = <<>>
    /\ call = NoCall
    /\ prev = NoCall

\* steganography.encode(message, input_file, output_path, direction); the model
\* follows one input file through one encode and the decodes that follow it
Encode(message, direction) ==
    LET r == encode(message, image, direction)
    IN  /\ stego.op = "none"
        /\ stego' = [op |-> "encode", message |-> message, direction |-> direction,
                     raised |-> r.raised, saved |-> r.saved, output |-> r.output]
        /\ revealed' = NoCall
        /\ UNCHANGED <<image, cvars>>

\* steganography.decode(input_file, direction) of the file the last encode
\* saved; a decode reads nothing of the decodes before it, and the model
\* follows one
DecodeOutput(direction) ==
    /\ stego.op = "encode"
    /\ stego.saved
    /\ call = NoCall
    /\ revealed = NoCall
    /\ revealed' = [op |-> "decode", file |-> "output", direction |-> direction,
                    result |-> decode(stego.output, direction)]
    /\ UNCHANGED <<image, stego, cvars>>

\* steganography.decode(input_file, direction) of an image nothing was hidden in
DecodeInput(direction) ==
    /\ call = NoCall
    /\ revealed = NoCall
    /\ revealed' = [op |-> "decode", file |-> "input", direction |-> direction,
                    result |-> decode(image, direction)]
    /\ UNCHANGED <<image, stego, cvars>>

\* the messages of a second encode: one of every length from 1, whose bytes
\* differ from each other and from most of the first messages
Overwrites == {Message(n, ByteChoice(2), ByteChoice(1)) : n \in 1..MaxLen}

\* steganography.encode(message, input_file, output_path, direction) with the
\* file the first encode saved as input_file, in the same direction
EncodeAgain(message) ==
    LET r == encode(message, stego.output, stego.direction)
    IN  /\ stego.op = "encode"
        /\ stego.saved
        /\ call = NoCall
        /\ revealed = NoCall
        /\ call' = [op |-> "encode", message |-> message, direction |-> stego.direction,
                    raised |-> r.raised, saved |-> r.saved, output |-> r.output]
        /\ UNCHANGED <<image, stego, revealed, input, prev>>

\* steganography.decode(input_file, direction) of the file the second encode
\* saved, in the direction of both encodes
DecodeAgain ==
    /\ call.op = "encode"
    /\ call.saved
    /\ revealed = NoCall
    /\ revealed' = [op |-> "decode", file |-> "rewritten", direction |-> call.direction,
                    result |-> decode(call.output, call.direction)]
    /\ UNCHANGED <<image, stego, cvars>>

StegNext ==
    \/ \E message \in Messages, direction \in Direction : Encode(message, direction)
    \/ \E direction \in Direction : DecodeOutput(direction)
    \/ \E direction \in Direction : DecodeInput(direction)
    \/ \E message \in Overwrites : EncodeAgain(message)
    \/ DecodeAgain

SpecSteg == StegInit /\ [][StegNext]_vars

(***************************************************************************)
(* The inputs of the codec: byte buffers of every length around the        *)
(* entropy sizes, and of a few small lengths, whose first four bytes and   *)
(* other bytes are drawn from the bytes above (0x00 among them, so that    *)
(* buffers with 32 leading zero bits, and all-zero ones, occur).           *)
(***************************************************************************)
BufferLengths ==
    (0..MaxSmall)
        \cup {(ENTROPY_SIZE_MIN \div 8) + 4 * k : k \in (-1)..Len(ENTROPY_SIZE_RANGE)}

Buffer(n, a, f) == [i \in 1..n |-> IF i <= 4 /\ i < n THEN a ELSE f]

Buffers == {Buffer(n, a, f) : n \in BufferLengths, a \in MessageBytes, f \in MessageBytes}

\* the argument of a constructor, of Python type kind, made from the buffer
Argument(kind, variant, buffer) ==
    IF kind = "int" THEN rshift(int_from_bytes(buffer), variant)
    ELSE IF kind = "str"
        THEN IF variant = 0 THEN hex_of_bytes(buffer)
             ELSE IF variant = 1 THEN Append(hex_of_bytes(buffer), 10)
             ELSE Append(Append(hex_of_bytes(buffer), 10), NotHex)
    ELSE buffer

Arguments ==
    {<<"bytes", 0>>, <<"str", 0>>, <<"str", 1>>, <<"str", 2>>, <<"float", 0>>}
        \cup {<<"int", n>> : n \in 0..MaxShift}

\* the word lists given to from_value: the words of an existing mnemonic,
\* as they are or changed
Mutations == {"same", "checksum", "entropy", "unknown", "unknown-checksum", "short"}

\* another word of the list: the one next to word in its pair of indices,
\* and the one half a list away
next_word(word) ==
    LET i == wordlist_index(word).wid
    IN  wordlist(IF i % 2 = 0 THEN i + 1 ELSE i - 1)
far_word(word) ==
    wordlist((wordlist_index(word).wid + (WORDLIST_SIZE \div 2)) % WORDLIST_SIZE)

Mutate(words, how) ==
    LET n == Len(words)
    IN  IF how = "checksum" THEN [words EXCEPT ![n] = next_word(@)]
        ELSE IF how = "entropy" THEN [words EXCEPT ![1] = far_word(@)]
        ELSE IF how = "unknown" THEN [words EXCEPT ![n \div 2] = @ + 1]
        ELSE IF how = "unknown-checksum"
            THEN [words EXCEPT ![1] = 2 * WORDLIST_SIZE, ![n] = next_word(@)]
        ELSE IF how = "short" THEN SubSeq(words, 1, n - 1)
        ELSE words

\* the sizes asked of generate: the allowed ones and some others
WordCounts == {WORD_COUNT_ALL[i] : i \in 1..Len(WORD_COUNT_ALL)} \cup {0, 13}
EntropySizes ==
    {ENTROPY_SIZE_RANGE[i] : i \in 1..Len(ENTROPY_SIZE_RANGE)} \cup {16, 129}

\* what the model keeps of a call: its arguments, what it raised (and the
\* arguments of the error), the objects it returned, the bytes it returned,
\* and how many calls led to it
Called(op, args, raised, err, ret, out, depth) ==
    [op |-> op, args |-> args, raised |-> raised, err |-> err,
     ret |-> ret, out |-> out, depth |-> depth]

one(r) == IF r.raised = "" THEN <<r.self>> ELSE <<>>

CodecInit ==
    /\ input \in Buffers
    /\ call = NoCall
    /\ prev = NoCall
    /\ image = Picture(1, 1, 0)
    /\ stego = NoCall
    /\ revealed = NoCall

\* The calls made on what a constructor returned follow the constructor that
\* was given bytes: the instance made from a str or an int that holds the
\* same bytes is the same instance.
FromBytes == call.op \in {"Mnemonic", "Entropy.from_value"} => call.args.kind = "bytes"

\* Mnemonic(entropy), the first call of the caller
NewMnemonic(kind, variant) ==
    /\ call = NoCall
    /\ LET arg == Argument(kind, variant, input)
           r == Mnemonic_init(kind, arg)
       IN  call' = Called("Mnemonic", [kind |-> kind, entropy |-> arg],
                          r.raised, NoArgs, one(r), <<>>, 1)
    /\ prev' = NoCall
    /\ UNCHANGED <<input, svars>>

\* Entropy.from_value(value), the first call of the caller
NewEntropy(kind, variant) ==
    /\ call = NoCall
    /\ LET arg == Argument(kind, variant, input)
           r == Entropy_from_value(kind, arg)
       IN  call' = Called("Entropy.from_value", [kind |-> kind, value |-> arg],
                          r.raised, NoArgs, one(r), <<>>, 1)
    /\ prev' = NoCall
    /\ UNCHANGED <<input, svars>>

\* Mnemonic.generate(size), the system's random bytes being those of input
GenerateMnemonic(size) ==
    /\ call = NoCall
    /\ LET r == Mnemonic_generate(size, input)
       IN  call' = Called("Mnemonic.generate", [size |-> size],
                          r.raised, NoArgs, one(r), <<>>, 1)
    /\ prev' = NoCall
    /\ UNCHANGED <<input, svars>>

\* Entropy.generate(size), the system's random bytes being those of input
GenerateEntropy(size) ==
    /\ call = NoCall
    /\ LET r == Entropy_generate(size, input)
       IN  call' = Called("Entropy.generate", [size |-> size],
                          r.raised, NoArgs, one(r), <<>>, 1)
    /\ prev' = NoCall
    /\ UNCHANGED <<input, svars>>

\* Transformation(t)(value) on the caller's bytes
Transform(t) ==
    /\ call = NoCall
    /\ call' = Called("Transformation", [self |-> t, value |-> input],
                      "", NoArgs, <<>>, Transformation_call(t, input), 1)
    /\ prev' = NoCall
    /\ UNCHANGED <<input, svars>>

\* Transformation(t)(value) on the bytes the last such call returned
TransformAgain(t) ==
    /\ call.op = "Transformation"
    /\ call.depth < MaxChain
    /\ call' = Called("Transformation", [self |-> t, value |-> call.out],
                      "", NoArgs, <<>>, Transformation_call(t, call.out), call.depth + 1)
    /\ prev' = call
    /\ UNCHANGED <<input, svars>>

\* m.transform(t) on a mnemonic the last call returned
TransformMnemonic(t) ==
    /\ call.op \in {"Mnemonic", "Mnemonic.transform"}
    /\ FromBytes
    /\ call.depth < MaxChain
    /\ Len(call.ret) >= 1
    /\ LET r == Mnemonic_transform(call.ret[1], t)
       IN  call' = Called("Mnemonic.transform",
                          [self |-> call.ret[1], transformation |-> t],
                          r.raised, NoArgs, one(r), <<>>, call.depth + 1)
    /\ prev' = call
    /\ UNCHANGED <<input, svars>>

\* e.transform(t) on an entropy the last call returned
TransformEntropy(t) ==
    /\ call.op \in {"Entropy.from_value", "Entropy.transform"}
    /\ FromBytes
    /\ call.depth < MaxChain
    /\ Len(call.ret) >= 1
    /\ LET r == Entropy_transform(call.ret[1], t)
       IN  call' = Called("Entropy.transform", [self |-> call.ret[1], algorithm |-> t],
                          r.raised, NoArgs, one(r), <<>>, call.depth + 1)
    /\ prev' = call
    /\ UNCHANGED <<input, svars>>

\* Mnemonic.from_value(words, fix_checksum), the words those of a mnemonic the
\* last call returned: of a new mnemonic as they are or changed, of a mnemonic
\* from_value returned as they are
FromValue(how, fix_checksum) ==
    /\ \/ call.op = "Mnemonic"
       \/ call.op = "Mnemonic.from_value" /\ how = "same"
    /\ FromBytes
    /\ call.depth < MaxChain
    /\ Len(call.ret) >= 1
    /\ LET words == Mutate(Mnemonic_value(call.ret[1]), how)
           r == Mnemonic_from_value(words, fix_checksum)
       IN  call' = Called("Mnemonic.from_value",
                          [value |-> words, fix_checksum |-> fix_checksum, how |-> how],
                          r.raised, r.args, one(r), <<>>, call.depth + 1)
    /\ prev' = call
    /\ UNCHANGED <<input, svars>>

\* the transform command, the user entering the words of the mnemonics the
\* last call returned (of the only one twice, when two are asked for)
TransformCommand(split, join, t) ==
    /\ call.op \in {"Mnemonic", "transform"}
    /\ FromBytes
    /\ call.depth < MaxChain
    /\ Len(call.ret) >= 1
    /\ ~(split /\ join)
    /\ LET typed == [i \in 1..2 |->
                        Mnemonic_value(call.ret[IF i <= Len(call.ret) THEN i ELSE 1])]
           options == [split |-> split, join |-> join, transformation |-> t]
           r == transform_run_command(options, typed)
       IN  call' = Called("transform", [options |-> options, typed |-> typed],
                          r.raised, NoArgs, r.result, <<>>, call.depth + 1)
    /\ prev' = call
    /\ UNCHANGED <<input, svars>>

\* utils transform(*mnemonics, algorithm, split, join), given the words of the
\* mnemonics the last call returned and extra times those of the first again;
\* a call on what transform returned has the algorithm of that call
UtilsTransform(split, join, t, extra) ==
    /\ call.op \in {"Mnemonic", "utils.transform"}
    /\ FromBytes
    /\ call.depth < MaxChain
    /\ Len(call.ret) >= 1
    /\ call.op = "utils.transform" => t = call.args.options.transformation
    /\ LET typed == [i \in 1..(Len(call.ret) + extra) |->
                        Mnemonic_value(call.ret[IF i <= Len(call.ret) THEN i ELSE 1])]
           options == [split |-> split, join |-> join, transformation |-> t]
           r == utils_transform(typed, t, split, join)
       IN  call' = Called("utils.transform", [options |-> options, typed |-> typed],
                          r.raised, NoArgs, r.result, <<>>, call.depth + 1)
    /\ prev' = call
    /\ UNCHANGED <<input, svars>>

\* utils generate(size), the system's random bytes being those of input
UtilsGenerate(size) ==
    /\ call = NoCall
    /\ LET r == utils_generate(size, input)
       IN  call' = Called("utils.generate", [size |-> size],
                          r.raised, NoArgs, one(r), <<>>, 1)
    /\ prev' = NoCall
    /\ UNCHANGED <<input, svars>>

CodecNext ==
    \/ \E a \in Arguments : NewMnemonic(a[1], a[2])
    \/ \E a \in Arguments : NewEntropy(a[1], a[2])
    \/ \E size \in WordCounts : GenerateMnemonic(size)
    \/ \E size \in EntropySizes : GenerateEntropy(size)
    \/ \E size \in WordCounts : UtilsGenerate(size)
    \/ \E t \in Transformation : Transform(t)
    \/ \E t \in Transformation : TransformAgain(t)
    \/ \E t \in Transformation : TransformMnemonic(t)
    \/ \E t \in Transformation : TransformEntropy(t)
    \/ \E how \in Mutations, fix_checksum \in BOOLEAN : FromValue(how, fix_checksum)
    \/ \E split \in BOOLEAN, join \in BOOLEAN, t \in Transformation :
           TransformCommand(split, join, t)
    \/ \E split \in BOOLEAN, join \in BOOLEAN, t \in Transformation, extra \in 0..1 :
           UtilsTransform(split, join, t, extra)

SpecCodec == CodecInit /\ [][CodecNext]_vars

(***************************************************************************)
(* The command line: cli/__main__.py, cli/command.py and the commands.     *)
(* A command is a function wrapped by the command decorator; main runs     *)
(* the run_command of the command the arguments name and exits with what   *)
(* it returned.                                                            *)
(***************************************************************************)
\* the class of the exception that carries a message of the library
exception_class(raised) ==
    IF raised = "" THEN ""
    ELSE IF raised = "invalid entropy type" THEN "TypeError"
    ELSE "ValueError"

\* what a Python function returned: None, or an int
None == [none |-> TRUE, code |-> 0]
returned(code) == [none |-> FALSE, code |-> code]

\* the classes that are not subclasses of Exception
BaseExceptions == {"KeyboardInterrupt", "SystemExit"}

\* command(name), the wrapper: exception is the class of what func raised; no
\* except clause takes a class that is not an Exception, and code is as set
command_wrapper(exception) ==
    IF exception = "" THEN 0
    ELSE IF exception = "TypeError" THEN -1
    ELSE IF exception = "ValueError" THEN -2
    ELSE IF exception = "OSError" THEN -3
    ELSE IF exception \in BaseExceptions THEN 0
    ELSE -4

\* the wrapper lets the exception of func go on to its caller: never, the
\* return of the finally clause drops it
wrapper_raises(exception) == FALSE

\* exit(code): the status the process ends with, a byte
exit(code) == IF code.none THEN 0 ELSE code.code % 256

\* steganography.run_command(options): code is what the wrapped __run_encode
\* or __run_decode returned
steganography_run_command(code) == None

SteganographyCommands == {"steganography encode", "steganography decode"}
Commands == {"generate", "validate", "transform"} \cup SteganographyCommands

\* main(args), lines 72-83: exception is the class of what the function of
\* the command raised
main(command, exception) ==
    exit(IF command \in SteganographyCommands
             THEN steganography_run_command(command_wrapper(exception))
         ELSE returned(command_wrapper(exception)))

\* the text of a word, three letters, and " ".join(words) in utf-8
word_text(word) ==
    <<97 + ((word \div 676) % 26), 97 + ((word \div 26) % 26), 97 + (word % 26)>>

RECURSIVE join_text(_)
join_text(words) ==
    IF words = <<>> THEN <<>>
    ELSE IF Len(words) = 1 THEN word_text(words[1])
    ELSE word_text(words[1]) \o <<32>> \o join_text(Tail(words))

\* bytes.decode("utf-8") succeeds
RECURSIVE utf8_valid(_)
utf8_valid(b) ==
    IF b = <<>> THEN TRUE
    ELSE LET cont(i) == i <= Len(b) /\ b[i] \in 128..191
             n == IF b[1] < 128 THEN 1
                  ELSE IF b[1] \in 194..223 /\ cont(2) THEN 2
                  ELSE IF /\ b[1] \in 224..239 /\ cont(2) /\ cont(3)
                          /\ (b[1] = 224 => b[2] >= 160)
                          /\ (b[1] = 237 => b[2] <= 159) THEN 3
                  ELSE IF /\ b[1] \in 240..244 /\ cont(2) /\ cont(3) /\ cont(4)
                          /\ (b[1] = 240 => b[2] >= 144)
                          /\ (b[1] = 244 => b[2] <= 143) THEN 4
                  ELSE 0
         IN  n > 0 /\ utf8_valid(SubSeq(b, n + 1, Len(b)))

\* the passwords entered at the two prompts: none, one that is not repeated,
\* one that is
Passwords == {"blank", "mismatch", "given"}

\* a step of the command that reads or writes outside the process fails:
\* the prompt is at the end of its input (EOFError) or the user interrupts
\* it (KeyboardInterrupt), a file cannot be opened or written (OSError)
Faults == {"", "EOFError", "KeyboardInterrupt", "OSError"}
AtPrompt == {"EOFError", "KeyboardInterrupt"}
fault_class(fault) == IF fault = "EOFError" THEN "Exception" ELSE fault

\* __run_encode(options): the class of what it raises. The message is the
\* text of the mnemonic, or a token of encrypt, which is longer.
run_encode(typed, password, input_image, direction, fault) ==
    LET mnemonic == Mnemonic_from_value(typed, FALSE)
    IN  IF fault \in AtPrompt THEN fault_class(fault)
        ELSE IF mnemonic.raised # "" THEN exception_class(mnemonic.raised)
        ELSE IF password = "mismatch" THEN "ValueError"
        ELSE IF fault = "OSError" THEN fault_class(fault)
        ELSE exception_class(
                 encode(join_text(Mnemonic_value(mnemonic.self)), input_image, direction).raised)

\* __run_decode(options): the class of what it raises. No image of the model
\* holds a token that encrypt made, and decrypt raises InvalidToken.
run_decode(password, input_image, direction, fault) ==
    IF fault \in AtPrompt THEN fault_class(fault)
    ELSE IF password = "mismatch" THEN "ValueError"
    ELSE IF fault = "OSError" THEN fault_class(fault)
    ELSE LET mnemonic == decode(input_image, direction)
         IN  IF mnemonic.type = "int" \/ mnemonic.value = <<>> THEN "ValueError"
             ELSE IF password = "given" THEN "Exception"
             ELSE IF utf8_valid(mnemonic.value) THEN ""
             ELSE "ValueError"

\* the images given to the steganography commands
CliPictures == {Picture(MaxWidth, MaxHeight, n) : n \in 0..(NumImages - 1)}

\* the line entered at the prompt for a mnemonic: the words of the mnemonic
\* of the input bytes, as they are or changed, or one word for each byte
Typed(how) ==
    LET m == Mnemonic_init("bytes", input)
    IN  IF m.raised = "" THEN Mutate(Mnemonic_value(m.self), how)
        ELSE [i \in 1..Len(input) |-> wordlist(input[i])]

\* what the model keeps of a process: the command, its arguments, the class
\* of the exception the function of the command raised, what the wrapper of
\* the function returned or raised, and the exit status
Exited(command, args, exception) ==
    [op |-> "main", command |-> command, args |-> args,
     exception |-> exception, code |-> command_wrapper(exception),
     raised |-> wrapper_raises(exception), status |-> main(command, exception)]

CliInit ==
    /\ input \in Buffers
    /\ image \in CliPictures
    /\ call = NoCall
    /\ prev = NoCall
    /\ stego = NoCall
    /\ revealed = NoCall

\* main(["generate", "-s", size]); the parser takes the sizes of WORD_COUNT_ALL
MainGenerate(size, fault) ==
    /\ call = NoCall
    /\ fault # "EOFError"
    /\ LET r == utils_generate(size, input)
       IN  call' = Exited("generate", [size |-> size],
                          IF fault # "" THEN fault_class(fault)
                          ELSE exception_class(r.raised))
    /\ UNCHANGED <<input, prev, svars>>

\* main(["validate"]) and main(["validate", "-f"])
MainValidate(how, fix_checksum, fault) ==
    /\ call = NoCall
    /\ fault # "OSError"
    /\ LET typed == Typed(how)
           r == Mnemonic_from_value(typed, fix_checksum)
       IN  call' = Exited("validate", [typed |-> typed, fix_checksum |-> fix_checksum],
                          IF fault # "" THEN fault_class(fault)
                          ELSE exception_class(r.raised))
    /\ UNCHANGED <<input, prev, svars>>

\* main(["transform", ...]); the parser takes one of -s and -j at most
MainTransform(how, split, join, t, fault) ==
    /\ call = NoCall
    /\ fault # "OSError"
    /\ ~(split /\ join)
    /\ LET typed == <<Typed(how), Typed("same")>>
           options == [split |-> split, join |-> join, transformation |-> t]
           r == transform_run_command(options, typed)
       IN  call' = Exited("transform", [typed |-> typed, options |-> options],
                          IF fault # "" THEN fault_class(fault)
                          ELSE exception_class(r.raised))
    /\ UNCHANGED <<input, prev, svars>>

\* main(["steganography", "encode", "-i", image, "-r", direction])
MainEncode(how, password, direction, fault) ==
    /\ call = NoCall
    /\ LET typed == Typed(how)
       IN  call' = Exited("steganography encode",
                          [typed |-> typed, password |-> password, direction |-> direction],
                          run_encode(typed, password, image, direction, fault))
    /\ UNCHANGED <<input, prev, svars>>

\* main(["steganography", "decode", "-i", image, "-r", direction])
MainDecode(password, direction, fault) ==
    /\ call = NoCall
    /\ call' = Exited("steganography decode",
                      [password |-> password, direction |-> direction],
                      run_decode(password, image, direction, fault))
    /\ UNCHANGED <<input, prev, svars>>

CliNext ==
    \/ \E i \in 1..Len(WORD_COUNT_ALL), fault \in Faults : MainGenerate(WORD_COUNT_ALL[i], fault)
    \/ \E how \in Mutations, fix_checksum \in BOOLEAN, fault \in Faults :
           MainValidate(how, fix_checksum, fault)
    \/ \E how \in Mutations, split \in BOOLEAN, join \in BOOLEAN, t \in Transformation,
          fault \in Faults : MainTransform(how, split, join, t, fault)
    \/ \E how \in Mutations, password \in Passwords, direction \in Direction,
          fault \in Faults : MainEncode(how, password, direction, fault)
    \/ \E password \in Passwords, direction \in Direction, fault \in Faults :
           MainDecode(password, direction, fault)

SpecCli == CliInit /\ [][CliNext]_vars

(***************************************************************************)
(* The seed: Mnemonic.encode of mnemonic.py and Seed of seed.py. A str is  *)
(* the sequence of its code points; pbkdf2_hmac is kept as the record of   *)
(* what it is given, two seeds being equal when they are derived from the  *)
(* same password and salt.                                                 *)
(***************************************************************************)
\* the longest passphrase
MaxPass == 2

\* the code points passphrases are made of: e, e with acute (U+00E9), the
\* combining acute accent (U+0301), the angstrom sign (U+212B)
CodePoints == {101, 233, 769, 8491}
Passphrases == SeqsUpTo(CodePoints, MaxPass)

\* unicodedata.normalize("NFKD", str(value)): the decomposition of each code
\* point (no two combining marks of the code points above are reordered)
decomposition(cp) ==
    IF cp = 233 THEN <<101, 769>>
    ELSE IF cp = 8491 THEN <<65, 778>>
    ELSE <<cp>>

RECURSIVE normalize_string(_)
normalize_string(value) ==
    IF value = <<>> THEN <<>>
    ELSE decomposition(Head(value)) \o normalize_string(Tail(value))

\* bytes(value, 'utf-8')
utf8_char(cp) ==
    IF cp < 128 THEN <<cp>>
    ELSE IF cp < 2048 THEN <<192 + (cp \div 64), 128 + (cp % 64)>>
    ELSE <<224 + (cp \div 4096), 128 + ((cp \div 64) % 64), 128 + (cp % 64)>>

RECURSIVE utf8_bytes(_)
utf8_bytes(value) ==
    IF value = <<>> THEN <<>>
    ELSE utf8_char(Head(value)) \o utf8_bytes(Tail(value))

\* the str 'mnemonic'
MNEMONIC_STR == <<109, 110, 101, 109, 111, 110, 105, 99>>

\* hashlib.pbkdf2_hmac(hash_name, password, salt, iterations)
pbkdf2_hmac(hash_name, password, salt, iterations) ==
    [hash_name |-> hash_name, password |-> password, salt |-> salt,
     iterations |-> iterations]

\* Mnemonic.encode(self, passphrase)
Mnemonic_encode(self, passphrase) ==
    pbkdf2_hmac("sha512",
                utf8_bytes(join_text(Mnemonic_value(self))),
                utf8_bytes(MNEMONIC_STR \o normalize_string(passphrase)),
                2048)

\* Seed(mnemonic, passphrase) and its value property; the value of the
\* mnemonic it holds is the str of its words
Seed_init(mnemonic, passphrase) == [mnemonic |-> mnemonic, passphrase |-> passphrase]

Seed_value(self) ==
    pbkdf2_hmac("sha512",
                utf8_bytes(join_text(Mnemonic_value(self.mnemonic))),
                utf8_bytes(MNEMONIC_STR \o self.passphrase),
                2048)

\* the seed of a mnemonic and a passphrase on the path op
seed_of(op, mnemonic, passphrase) ==
    IF op = "Mnemonic.encode" THEN Mnemonic_encode(mnemonic, passphrase)
    ELSE Seed_value(Seed_init(mnemonic, passphrase))

SeedInit ==
    /\ input \in Buffers
    /\ call = NoCall
    /\ prev = NoCall
    /\ image = Picture(1, 1, 0)
    /\ stego = NoCall
    /\ revealed = NoCall

\* Mnemonic(input).encode(passphrase)
MnemonicEncode(passphrase) ==
    /\ call = NoCall
    /\ LET r == Mnemonic_init("bytes", input)
       IN  call' = [op |-> "Mnemonic.encode", passphrase |-> passphrase,
                    raised |-> r.raised, ret |-> one(r),
                    seed |-> IF r.raised = "" THEN <<Mnemonic_encode(r.self, passphrase)>>
                             ELSE <<>>]
    /\ UNCHANGED <<input, prev, svars>>

\* Seed(Mnemonic(input), passphrase).value
SeedValue(passphrase) ==
    /\ call = NoCall
    /\ LET r == Mnemonic_init("bytes", input)
       IN  call' = [op |-> "Seed.value", passphrase |-> passphrase,
                    raised |-> r.raised, ret |-> one(r),
                    seed |-> IF r.raised = ""
                                 THEN <<Seed_value(Seed_init(r.self, passphrase))>>
                             ELSE <<>>]
    /\ UNCHANGED <<input, prev, svars>>

SeedNext ==
    \/ \E passphrase \in Passphrases : MnemonicEncode(passphrase)
    \/ \E passphrase \in Passphrases : SeedValue(passphrase)

SpecSeed == SeedInit /\ [][SeedNext]_vars

(***************************************************************************)
(* C1: steganography round trip. For each direction and every message of   *)
(* L >= 1 bytes that encode accepts (3*L <= W*H), decoding the encoded     *)
(* image in the same direction returns exactly the message.                *)
(***************************************************************************)
C1_RoundTrip ==
    (/\ revealed.op = "decode"
     /\ revealed.file = "output"
     /\ revealed.direction = stego.direction
     /\ Len(stego.message) >= 1)
    => revealed.result = [type |-> "bytes", value |-> stego.message]

(***************************************************************************)
(* What the claims about the codec speak of, stated without the code: the  *)
(* bits of a buffer and of a word sequence, the allowed sizes, the top     *)
(* bits of the hash.                                                       *)
(***************************************************************************)
AllowedBits == {128, 160, 192, 224, 256}
AllowedWords == {12, 15, 18, 21, 24}

\* the width lowest bits of n, most significant first
bits_of(n, width) == [i \in 1..width |-> (n \div (2 ^ (width - i))) % 2]

\* the bits of a buffer, eight for each byte, most significant first
bits_of_bytes(value) ==
    [i \in 1..(8 * Len(value)) |-> bits_of(value[((i - 1) \div 8) + 1], 8)[((i - 1) % 8) + 1]]

\* the number a short string of bits is
number_of_bits(bits) == small_value(int_base2(bits))

\* the bytes a string of bits is, eight bits for each byte
bytes_of_bits(bits) ==
    [i \in 1..(Len(bits) \div 8) |-> number_of_bits(SubSeq(bits, 8 * i - 7, 8 * i))]

in_wordlist(words) == \A i \in 1..Len(words) : wordlist_index(words[i]).raised = ""

\* the indices of the words as 11-bit chunks, the first word first
index_bits(words) ==
    [i \in 1..(11 * Len(words)) |->
        bits_of(wordlist_index(words[((i - 1) \div 11) + 1]).wid, 11)[((i - 1) % 11) + 1]]

\* of a sequence of 12..24 words: the bits of checksum, the entropy and the
\* checksum it holds
checksum_bits(words) == (11 * Len(words)) \div 33
recovered(words) ==
    bytes_of_bits(SubSeq(index_bits(words), 1, 11 * Len(words) - checksum_bits(words)))
embedded(words) ==
    number_of_bits(SubSeq(index_bits(words),
                          11 * Len(words) - checksum_bits(words) + 1, 11 * Len(words)))

\* the top N/32 bits of the hash of an entropy of N bits
top_bits_of_hash(e) ==
    number_of_bits(SubSeq(bits_of_bytes(sha256_digest(e)), 1, (8 * Len(e)) \div 32))

\* the objects the last call returned, and the mnemonics among them
Objects == IF call.op = "none" THEN {} ELSE {call.ret[i] : i \in 1..Len(call.ret)}
Mnemonics == {o \in Objects : "entropy" \in DOMAIN o}

\* the last call is from_value, on words of a supported length
FromValueCalled ==
    /\ call.op = "Mnemonic.from_value"
    /\ Len(call.args.value) \in AllowedWords

\* the last call is a constructor, and the argument it was given
Constructed == call.op \in {"Mnemonic", "Entropy.from_value"}
Given == IF call.op = "Mnemonic" THEN call.args.entropy ELSE call.args.value

(***************************************************************************)
(* C2: entropy round trip. Mnemonic(e) succeeds for every e of 128, 160,   *)
(* 192, 224 or 256 bits, and from_value of its words, fix_checksum false,  *)
(* succeeds and returns a mnemonic whose entropy is e.                     *)
(***************************************************************************)
C2_EntropyRoundTrip ==
    /\ (/\ call.op = "Mnemonic"
        /\ call.args.kind = "bytes"
        /\ 8 * Len(call.args.entropy) \in AllowedBits)
       => call.raised = ""
    /\ (/\ call.op = "Mnemonic.from_value"
        /\ call.args.how = "same"
        /\ ~call.args.fix_checksum
        /\ prev.op = "Mnemonic"
        /\ prev.args.kind = "bytes")
       => /\ call.args.value = Mnemonic_value(prev.ret[1])
          /\ call.raised = ""
          /\ Len(call.ret) = 1
          /\ call.ret[1].entropy = prev.args.entropy

\* the words of a 256-bit entropy that starts with 32 zero bits were read back
C2_Witness ==
    /\ call.op = "Mnemonic.from_value"
    /\ call.args.how = "same"
    /\ ~call.args.fix_checksum
    /\ prev.op = "Mnemonic"
    /\ prev.args.kind = "bytes"
    /\ Len(prev.args.entropy) = 32
    /\ SubSeq(prev.args.entropy, 1, 4) = Zeros(4)
    /\ prev.args.entropy # Zeros(32)
    /\ Len(call.args.value) = 24
    /\ Len(call.ret) = 1

(***************************************************************************)
(* C3: bit-packing law. The value of every mnemonic, of N bits of entropy  *)
(* and N/32 bits of checksum, has (N + N/32)/11 words, and the indices of  *)
(* its words, as 11-bit chunks from the first word on, read as one         *)
(* big-endian integer, are (entropy << N/32) | checksum.                   *)
(***************************************************************************)
C3_BitPacking ==
    \A m \in Mnemonics :
        LET N == 8 * Len(m.entropy)
            words == Mnemonic_value(m)
        IN  /\ 11 * Len(words) = N + (N \div 32)
            /\ in_wordlist(words)
            /\ int_base2(index_bits(words))
                   = bit_or(lshift(int_base2(bits_of_bytes(m.entropy)), N \div 32),
                            small_digits(Mnemonic_checksum(m)))

\* a mnemonic of 160 bits exists, of 15 words, the first of them not index 0
C3_Witness ==
    /\ call.op = "Mnemonic"
    /\ Len(call.ret) = 1
    /\ Len(call.ret[1].entropy) = 20
    /\ Len(Mnemonic_value(call.ret[1])) = 15
    /\ Mnemonic_value(call.ret[1])[1] # wordlist(0)

(***************************************************************************)
(* C4: checksum law. The checksum of every mnemonic of N bits of entropy   *)
(* is the top N/32 bits of the hash of the entropy, and is in              *)
(* [0, 2^(N/32)).                                                          *)
(***************************************************************************)
C4_ChecksumLaw ==
    \A m \in Mnemonics :
        /\ Mnemonic_checksum(m) = top_bits_of_hash(m.entropy)
        /\ Mnemonic_checksum(m) >= 0
        /\ Mnemonic_checksum(m) < 2 ^ ((8 * Len(m.entropy)) \div 32)

\* a mnemonic of 160 bits exists whose checksum has its top bit set, and the
\* first byte of whose hash has bits below the checksum
C4_Witness ==
    /\ call.op = "Mnemonic.generate"
    /\ Len(call.ret) = 1
    /\ Len(call.ret[1].entropy) = 20
    /\ Mnemonic_checksum(call.ret[1]) >= 16
    /\ sha256_digest(call.ret[1].entropy)[1] % 8 # 0

(***************************************************************************)
(* C5: checksum rejection. On words of a supported length that are all in  *)
(* the wordlist, from_value with fix_checksum false raises 'invalid        *)
(* checksum' exactly when the low checksum bits of the words differ from   *)
(* the checksum of the entropy they hold; the error gives the recomputed   *)
(* checksum as expected and the embedded one as obtained, in hex, and no   *)
(* mnemonic is returned.                                                   *)
(***************************************************************************)
C5_ChecksumRejection ==
    (/\ FromValueCalled
     /\ ~call.args.fix_checksum
     /\ in_wordlist(call.args.value))
    => LET words == call.args.value
           recomputed == top_bits_of_hash(recovered(words))
       IN  /\ (call.raised = "invalid checksum") <=> (embedded(words) # recomputed)
           /\ call.raised = "invalid checksum"
              => /\ call.err = [expected |-> hex_digits(recomputed),
                                obtained |-> hex_digits(embedded(words))]
                 /\ call.ret = <<>>
           /\ call.raised = "" => call.ret = <<[entropy |-> recovered(words)]>>

\* words whose first word was changed were rejected for their checksum
C5_Witness ==
    /\ FromValueCalled
    /\ ~call.args.fix_checksum
    /\ call.args.how = "entropy"
    /\ in_wordlist(call.args.value)
    /\ call.raised = "invalid checksum"
    /\ call.err.expected # call.err.obtained

(***************************************************************************)
(* C6: checksum correction. On words in the wordlist whose embedded        *)
(* checksum does not match, from_value with fix_checksum true raises       *)
(* nothing and returns the mnemonic of the recovered entropy, whose words  *)
(* hold that entropy and the recomputed checksum; from_value with          *)
(* fix_checksum false accepts those words and returns the same mnemonic.   *)
(***************************************************************************)
C6_ChecksumCorrection ==
    /\ (/\ FromValueCalled
        /\ call.args.fix_checksum
        /\ in_wordlist(call.args.value)
        /\ embedded(call.args.value) # top_bits_of_hash(recovered(call.args.value)))
       => /\ call.raised = ""
          /\ call.ret = <<[entropy |-> recovered(call.args.value)]>>
          /\ recovered(Mnemonic_value(call.ret[1])) = recovered(call.args.value)
          /\ embedded(Mnemonic_value(call.ret[1]))
                 = top_bits_of_hash(recovered(call.args.value))
    /\ (/\ call.op = "Mnemonic.from_value"
        /\ call.args.how = "same"
        /\ ~call.args.fix_checksum
        /\ prev.op = "Mnemonic.from_value"
        /\ prev.args.fix_checksum)
       => /\ call.args.value = Mnemonic_value(prev.ret[1])
          /\ call.raised = ""
          /\ call.ret = prev.ret

\* words with a wrong checksum were corrected, and the corrected words, which
\* are other words, were accepted
C6_Witness ==
    /\ call.op = "Mnemonic.from_value"
    /\ call.args.how = "same"
    /\ ~call.args.fix_checksum
    /\ prev.op = "Mnemonic.from_value"
    /\ prev.args.fix_checksum
    /\ prev.args.how = "checksum"
    /\ embedded(prev.args.value) # top_bits_of_hash(recovered(prev.args.value))
    /\ call.args.value # prev.args.value
    /\ call.raised = ""

(***************************************************************************)
(* C7: unknown word. On words of a supported length one of which is not in *)
(* the wordlist, from_value raises 'invalid mnemonic value' and returns no *)
(* mnemonic, whatever fix_checksum and the checksum bits are.              *)
(***************************************************************************)
C7_UnknownWord ==
    (/\ FromValueCalled
     /\ ~in_wordlist(call.args.value))
    => /\ call.raised = "invalid mnemonic value"
       /\ call.ret = <<>>

\* words with an unknown word and a wrong last word were rejected, with
\* fix_checksum true
C7_Witness ==
    /\ FromValueCalled
    /\ call.args.how = "unknown-checksum"
    /\ call.args.fix_checksum
    /\ ~in_wordlist(call.args.value)
    /\ call.raised = "invalid mnemonic value"

(***************************************************************************)
(* C8: size invariant. Every Entropy and Mnemonic a call returned, after   *)
(* any sequence of constructions, generations, transforms, splits and      *)
(* joins, holds 128, 160, 192, 224 or 256 bits (a mnemonic 12, 15, 18, 21  *)
(* or 24 words); bytes, or a hex string that decodes to bytes, of any      *)
(* other length are rejected with 'invalid entropy size'.                  *)
(***************************************************************************)
C8_SizeInvariant ==
    /\ \A o \in Objects :
           IF "entropy" \in DOMAIN o
               THEN /\ 8 * Len(o.entropy) \in AllowedBits
                    /\ Len(Mnemonic_value(o)) \in AllowedWords
                    /\ 11 * Len(Mnemonic_value(o)) = 33 * ((8 * Len(o.entropy)) \div 32)
           ELSE 8 * Len(o.value) \in AllowedBits
    /\ (/\ Constructed
        /\ call.args.kind = "bytes"
        /\ 8 * Len(Given) \notin AllowedBits)
       => /\ call.raised = "invalid entropy size"
          /\ call.ret = <<>>
    /\ (/\ Constructed
        /\ call.args.kind = "str"
        /\ Len(Given) % 2 = 0
        /\ \A i \in 1..Len(Given) : Given[i] \in 0..15
        /\ 4 * Len(Given) \notin AllowedBits)
       => /\ call.raised = "invalid entropy size"
          /\ call.ret = <<>>

\* two mnemonics of 12 words exist, the halves of a mnemonic that was joined
\* from two
C8_Witness ==
    /\ call.op = "transform"
    /\ call.args.options.split
    /\ Len(call.ret) = 2
    /\ prev.op = "transform"
    /\ prev.args.options.join
    /\ Len(call.ret[1].entropy) = 16
    /\ Len(call.ret[2].entropy) = 16

(***************************************************************************)
(* C9: integer normalization. An entropy made from an integer v >= 0 is    *)
(* the big-endian encoding of v in ceil(bit_length(v)/32)*32 bits, and the *)
(* construction raises 'invalid entropy size' when that number of bits is  *)
(* not 128, 160, 192, 224 or 256.                                          *)
(***************************************************************************)
C9_IntegerNormalization ==
    (/\ Constructed
     /\ call.args.kind = "int")
    => LET v == Given
           bits == ((Len(v) + 31) \div 32) * 32
       IN  IF bits \in AllowedBits
               THEN /\ call.raised = ""
                    /\ Len(call.ret) = 1
                    /\ bits_of_bytes(IF call.op = "Mnemonic" THEN call.ret[1].entropy
                                     ELSE call.ret[1].value)
                           = Zeros(bits - Len(v)) \o v
           ELSE /\ call.raised = "invalid entropy size"
                /\ call.ret = <<>>

\* an integer of 159 bits made a mnemonic of 160 bits
C9_Witness ==
    /\ call.op = "Mnemonic"
    /\ call.args.kind = "int"
    /\ bit_length(call.args.entropy) = 159
    /\ Len(call.ret) = 1
    /\ Len(call.ret[1].entropy) = 20

(***************************************************************************)
(* C10: transform involution. The negative of the negative of a buffer,    *)
(* and the mirror of the mirror, is the buffer, of the same length.        *)
(***************************************************************************)
C10_Involution ==
    (/\ call.op = "Transformation"
     /\ prev.op = "Transformation"
     /\ call.args.self = prev.args.self)
    => /\ call.args.value = Transformation_call(prev.args.self, prev.args.value)
       /\ call.out = prev.args.value
       /\ Len(call.out) = Len(prev.args.value)

\* a buffer of 16 bytes that starts with zero bits and ends with a one was
\* mirrored twice
C10_Witness ==
    /\ call.op = "Transformation"
    /\ prev.op = "Transformation"
    /\ call.args.self = MIRROR
    /\ prev.args.self = MIRROR
    /\ Len(prev.args.value) = 16
    /\ prev.args.value[1] = 0
    /\ prev.args.value[16] % 2 = 1
    /\ call.out = prev.args.value

(***************************************************************************)
(* C11: transform reference. On a buffer of N bits, Negative returns the   *)
(* N bits of 2^N - 1 - v, each the other bit than the input's at its       *)
(* place, and Mirror returns the N bits of the input from the last to the  *)
(* first, leading zeros included.                                          *)
(***************************************************************************)
C11_TransformReference ==
    call.op = "Transformation"
    => LET before == bits_of_bytes(call.args.value)
           after == bits_of_bytes(call.out)
           N == Len(before)
       IN  /\ Len(call.out) = Len(call.args.value)
           /\ Len(after) = N
           /\ call.args.self = NEGATIVE
              => /\ \A i \in 1..N : after[i] = 1 - before[i]
                 /\ int_base2(after) = sub(sub(pow2(N), int_base2(before)), small_digits(1))
           /\ call.args.self = MIRROR
              => \A i \in 1..N : after[i] = before[N + 1 - i]

\* a buffer of 20 bytes that starts with 32 zero bits, and is not its own
\* mirror, was mirrored
C11_Witness ==
    /\ call.op = "Transformation"
    /\ call.args.self = MIRROR
    /\ Len(call.args.value) = 20
    /\ SubSeq(call.args.value, 1, 4) = Zeros(4)
    /\ call.out # call.args.value
    /\ SubSeq(call.out, 17, 20) = Zeros(4)

(***************************************************************************)
(* What the claims about split and join speak of: the two paths to them    *)
(* (the transform command and the transform function), and the transform   *)
(* of a buffer stated on its bits.                                         *)
(***************************************************************************)
TransformOps == {"transform", "utils.transform"}

\* the call splits, or joins: the function splits when both are asked for
Splits == call.op \in TransformOps /\ call.args.options.split
Joins == call.op \in TransformOps /\ call.args.options.join /\ ~call.args.options.split

reference_transform(t, value) ==
    LET b == bits_of_bytes(value)
    IN  bytes_of_bits([i \in 1..Len(b) |->
                          IF t = NEGATIVE THEN 1 - b[i] ELSE b[Len(b) + 1 - i]])

(***************************************************************************)
(* C12: split/join inverse. Splitting a 24-word mnemonic m with t gives    *)
(* the 12-word mnemonics of the first and the second 128 bits of the       *)
(* transformed entropy of m, and joining the two, in that order, with t    *)
(* gives a mnemonic equal to m.                                            *)
(***************************************************************************)
C12_SplitJoinInverse ==
    /\ (Splits /\ call.raised = "")
       => /\ Len(call.args.typed[1]) = 24
          /\ Len(call.ret) = 2
          /\ Len(call.ret[1].entropy) = 16
          /\ Len(call.ret[2].entropy) = 16
          /\ call.ret[1].entropy \o call.ret[2].entropy
                 = reference_transform(call.args.options.transformation,
                                       recovered(call.args.typed[1]))
    /\ (/\ Joins
        /\ prev.op = call.op
        /\ prev.args.options.split
        /\ prev.raised = ""
        /\ Len(call.args.typed) = 2
        /\ call.args.options.transformation = prev.args.options.transformation)
       => /\ call.args.typed = <<Mnemonic_value(prev.ret[1]), Mnemonic_value(prev.ret[2])>>
          /\ call.raised = ""
          /\ Len(call.ret) = 1
          /\ Mnemonic_value(call.ret[1]) = prev.args.typed[1]
          /\ call.ret[1].entropy = recovered(prev.args.typed[1])

\* the two halves of a 24-word mnemonic that is not its own mirror, and whose
\* halves differ, were joined by the command after a split with mirror
C12_Witness ==
    /\ Joins
    /\ call.op = "transform"
    /\ prev.op = "transform"
    /\ prev.args.options.split
    /\ prev.raised = ""
    /\ call.args.options.transformation = MIRROR
    /\ prev.args.options.transformation = MIRROR
    /\ call.args.typed[1] # call.args.typed[2]
    /\ prev.ret[1].entropy \o prev.ret[2].entropy # recovered(prev.args.typed[1])
    /\ Len(call.ret) = 1
    /\ Len(Mnemonic_value(call.ret[1])) = 24

(***************************************************************************)
(* C13: split/join preconditions. Split fails with an invalid-size error   *)
(* unless its mnemonic has 24 words; join fails with an invalid-size error *)
(* unless it is given exactly two mnemonics, both of 12 words; a call that *)
(* fails gives no mnemonic. The errors on the sizes are those the two      *)
(* paths raise on the number of words and on the number of mnemonics.      *)
(***************************************************************************)
InvalidSizeErrors ==
    {"invalid mnemonic size:", "invalid mnemonics size:",
     "invalid mnemonic size", "too few mnemonic values"}

C13_Preconditions ==
    /\ (Splits /\ Len(call.args.typed[1]) # 24)
       => call.raised \in InvalidSizeErrors
    /\ (Joins /\ ~(/\ Len(call.args.typed) = 2
                   /\ Len(call.args.typed[1]) = 12
                   /\ Len(call.args.typed[2]) = 12))
       => call.raised \in InvalidSizeErrors
    /\ (call.op \in TransformOps /\ call.raised # "") => call.ret = <<>>

(***************************************************************************)
(* What the claims about steganography speak of: the pixels of an image in *)
(* the order of a direction, and the low bits of their channels.           *)
(***************************************************************************)
\* the index y * W + x of the pixel at an ordinal of the traversal
index_at(img, direction, ordinal) ==
    LET c == get_pixel(img, direction, ordinal)[1]
    IN  c[2] * img.size[1] + c[1]

\* the low bit of channel k (0..2) of the pixel at an ordinal
low_bit(img, direction, ordinal, k) == get_pixel(img, direction, ordinal)[2][k + 1] % 2

\* an encode was called, and it saved an image
Encoded == stego.op = "encode"
Saved == stego.op = "encode" /\ stego.saved

(***************************************************************************)
(* C14: capacity. encode of L bytes into a W x H image raises 'invalid     *)
(* size' when 3*L > W*H and does not when 3*L <= W*H; when it raises, no   *)
(* pixel of the output image is written and no image is saved.             *)
(***************************************************************************)
C14_Capacity ==
    Encoded
    => LET L == Len(stego.message)
           S == image.size[1] * image.size[2]
       IN  /\ 3 * L > S => /\ stego.raised = "invalid size"
                           /\ ~stego.saved
                           /\ stego.output = image
           /\ 3 * L <= S => /\ stego.raised = ""
                            /\ stego.saved

\* a message of two bytes was refused by an image of four pixels
C14_Witness ==
    /\ Encoded
    /\ Len(stego.message) = 2
    /\ image.size = <<2, 2>>
    /\ stego.raised = "invalid size"

(***************************************************************************)
(* C15: direction bijection. For every image of W x H = S pixels and each  *)
(* direction, ordinal -> index is a bijection of 0..S-1 onto 0..S-1, the   *)
(* coordinates of every ordinal are inside the image, and an encode writes *)
(* no pixel twice.                                                         *)
(***************************************************************************)
C15_DirectionBijection ==
    LET W == image.size[1]
        H == image.size[2]
        S == W * H
    IN  /\ \A d \in Direction :
               LET visited == [o \in 0..(S - 1) |-> index_at(image, d, o)]
               IN  /\ \A o \in 0..(S - 1) :
                          LET c == get_pixel(image, d, o)[1]
                          IN  /\ c[1] \in 0..(W - 1)
                              /\ c[2] \in 0..(H - 1)
                              /\ visited[o] \in 0..(S - 1)
                   /\ {visited[o] : o \in 0..(S - 1)} = 0..(S - 1)
                   /\ Cardinality({visited[o] : o \in 0..(S - 1)}) = S
        /\ Saved
           => LET items == get_modified_pixels(image, stego.message, stego.direction).items
                  written == [n \in 1..Len(items) |-> items[n][1]]
              IN  Cardinality({written[n] : n \in 1..Len(items)}) = Len(items)

\* a message that fills an image of 2 x 3 pixels was written from bottom to
\* top
C15_Witness ==
    /\ Saved
    /\ stego.direction = REVERSE_VERTICAL
    /\ image.size = <<2, 3>>
    /\ Len(stego.message) = 2
    /\ index_at(image, REVERSE_VERTICAL, 1) = 3

(***************************************************************************)
(* C16: framing. For a message of L bytes, encode writes the pixels at the *)
(* ordinals 3*i + p (i in 0..L-1, p in 0..2); the low bit of channel k of  *)
(* pixel p, of slot s = 3*p + k, is bit s of byte i, counted from the most *)
(* significant one, when s < 8, and for s = 8 it is 1 when i is not the    *)
(* last byte and 0 when it is.                                             *)
(***************************************************************************)
C16_Framing ==
    Saved
    => LET L == Len(stego.message)
           items == get_modified_pixels(image, stego.message, stego.direction).items
       IN  /\ Len(items) = 3 * L
           /\ \A i \in 0..(L - 1), p \in 0..2 :
                  /\ items[3 * i + p + 1][1] = get_pixel(image, stego.direction, 3 * i + p)[1]
                  /\ \A k \in 0..2 :
                         LET s == 3 * p + k
                             bit == low_bit(stego.output, stego.direction, 3 * i + p, k)
                         IN  IF s < 8 THEN bit = bits_of(stego.message[i + 1], 8)[s + 1]
                             ELSE bit = (IF i < L - 1 THEN 1 ELSE 0)

\* a message of two bytes, the first 0x4a, was written
C16_Witness ==
    /\ Saved
    /\ Len(stego.message) = 2
    /\ stego.message[1] = 74
    /\ low_bit(stego.output, stego.direction, 2, 2) = 1
    /\ low_bit(stego.output, stego.direction, 5, 2) = 0

(***************************************************************************)
(* C17: encode frame. The output image of an encode of L bytes has the     *)
(* size of the input image, the upper 7 bits of every channel of every     *)
(* pixel, and every pixel at an ordinal >= 3*L, as in the input image; and *)
(* no step changes the input image.                                        *)
(***************************************************************************)
C17_EncodeFrame ==
    /\ [](Saved
          => LET S == image.size[1] * image.size[2]
             IN  /\ stego.output.size = image.size
                 /\ DOMAIN stego.output.px = DOMAIN image.px
                 /\ \A c \in DOMAIN image.px : \A k \in 1..3 :
                        stego.output.px[c][k] \div 2 = image.px[c][k] \div 2
                 /\ \A o \in (3 * Len(stego.message))..(S - 1) :
                        get_pixel(stego.output, stego.direction, o)
                            = get_pixel(image, stego.direction, o))
    /\ [][image' = image]_vars

\* a message of one byte was written in an image of 2 x 3 pixels, changing a
\* pixel
C17_Witness ==
    /\ Saved
    /\ Len(stego.message) = 1
    /\ image.size = <<2, 3>>
    /\ stego.output # image

(***************************************************************************)
(* C18: no message found. decode returns its 'no message found' result (0) *)
(* exactly when no flag slot (the third channel of a pixel whose ordinal   *)
(* is 2 mod 3) of the image holds low bit 0; else it returns the bytes     *)
(* read up to and including the byte of the first such flag.               *)
(***************************************************************************)
flags(img, direction) ==
    {o \in 0..(img.size[1] * img.size[2] - 1) :
        o % 3 = 2 /\ low_bit(img, direction, o, 2) = 0}

bytes_up_to(img, direction, flag) ==
    [i \in 1..((flag + 1) \div 3) |->
        number_of_bits([s \in 1..8 |->
            low_bit(img, direction, 3 * (i - 1) + ((s - 1) \div 3), (s - 1) % 3)])]

decoded_image == IF revealed.file = "output" THEN stego.output ELSE image

C18_NoMessage ==
    revealed.op = "decode"
    => LET found == flags(decoded_image, revealed.direction)
       IN  IF found = {}
               THEN revealed.result = [type |-> "int", value |-> <<>>]
           ELSE revealed.result
                    = [type |-> "bytes",
                       value |-> bytes_up_to(decoded_image, revealed.direction,
                                             CHOOSE f \in found : \A g \in found : f <= g)]

(***************************************************************************)
(* C19: CLI exit code. Each command (generate, validate, transform,        *)
(* steganography encode, steganography decode) run through main ends the   *)
(* process with status 0 when the function of the command raised nothing,  *)
(* and when it raised, with a status that is not 0 and that no command     *)
(* gives for a failure of another category.                                *)
(***************************************************************************)
FailureCategories == {"TypeError", "ValueError", "OSError", "Exception"}

C19_ExitCode ==
    call.op = "main"
    => IF call.exception = "" THEN call.status = 0
       ELSE /\ call.status # 0
            /\ \A c \in Commands \ SteganographyCommands,
                  e \in FailureCategories \ {call.exception} :
                   main(c, e) # call.status

(***************************************************************************)
(* C20: seed salt normalization. On both paths (Mnemonic.encode and        *)
(* Seed.value) the seed is derived from the text of the mnemonic words     *)
(* and the salt 'mnemonic' followed by the NFKD-normalized passphrase, so  *)
(* every passphrase with the same normal form gives the same seed for the  *)
(* same mnemonic.                                                          *)
(***************************************************************************)
Derived == call.op \in {"Mnemonic.encode", "Seed.value"} /\ call.raised = ""

C20_SaltNormalized ==
    Derived
    => /\ call.seed[1].salt = utf8_bytes(MNEMONIC_STR \o normalize_string(call.passphrase))
       /\ call.seed[1].password = utf8_bytes(join_text(Mnemonic_value(call.ret[1])))
       /\ \A p \in Passphrases :
              normalize_string(p) = normalize_string(call.passphrase)
              => seed_of(call.op, call.ret[1], p) = call.seed[1]

(***************************************************************************)
(* C21: words round trip. When from_value with fix_checksum false accepts  *)
(* a sequence of words, the value of the mnemonic it returns is that       *)
(* sequence, word for word.                                                *)
(***************************************************************************)
C21_WordsRoundTrip ==
    (/\ call.op = "Mnemonic.from_value"
     /\ ~call.args.fix_checksum
     /\ call.raised = "")
    => /\ Len(call.ret) = 1
       /\ Mnemonic_value(call.ret[1]) = call.args.value

\* 24 words that were corrected first, whose checksum is not zero, were
\* accepted
C21_Witness ==
    /\ call.op = "Mnemonic.from_value"
    /\ ~call.args.fix_checksum
    /\ call.raised = ""
    /\ Len(call.args.value) = 24
    /\ embedded(call.args.value) # 0
    /\ prev.op = "Mnemonic.from_value"
    /\ prev.args.how = "checksum"

(***************************************************************************)
(* C22: reference vector. The mnemonic of the all-zero entropy of 128 bits *)
(* has checksum 3 and the twelve words 'abandon' (index 0) eleven times    *)
(* and 'about' (index 3); from_value accepts these words and returns the   *)
(* mnemonic of the all-zero entropy.                                       *)
(***************************************************************************)
\* 'abandon' is wordlist[0] and 'about' is wordlist[3]
reference_words == [i \in 1..12 |-> wordlist(IF i < 12 THEN 0 ELSE 3)]
reference_entropy == [i \in 1..16 |-> 0]

C22_ReferenceVector ==
    /\ \A m \in Mnemonics :
           m.entropy = reference_entropy
           => /\ Mnemonic_checksum(m) = 3
              /\ Mnemonic_value(m) = reference_words
    /\ (call.op = "Mnemonic.from_value" /\ call.args.value = reference_words)
       => /\ call.raised = ""
          /\ call.ret = <<[entropy |-> reference_entropy]>>

\* the words of the mnemonic of 16 zero bytes were given to from_value, which
\* is to reject a wrong checksum
C22_Witness ==
    /\ call.op = "Mnemonic.from_value"
    /\ ~call.args.fix_checksum
    /\ call.args.value = reference_words
    /\ prev.op = "Mnemonic"
    /\ prev.args.entropy = reference_entropy

(***************************************************************************)
(* C23: generate size. Entropy.generate(size) returns an entropy of size   *)
(* bits when size is 128, 160, 192, 224 or 256 and raises 'invalid entropy *)
(* size' otherwise; Mnemonic.generate(words) returns a mnemonic of that    *)
(* many words when words is 12, 15, 18, 21 or 24 and raises 'invalid       *)
(* mnemonic size' otherwise.                                               *)
(***************************************************************************)
C23_GenerateSize ==
    /\ call.op = "Entropy.generate"
       => IF call.args.size \in AllowedBits
              THEN /\ call.raised = ""
                   /\ Len(call.ret) = 1
                   /\ 8 * Len(call.ret[1].value) = call.args.size
          ELSE call.raised = "invalid entropy size" /\ call.ret = <<>>
    /\ call.op = "Mnemonic.generate"
       => IF call.args.size \in AllowedWords
              THEN /\ call.raised = ""
                   /\ Len(call.ret) = 1
                   /\ Len(Mnemonic_value(call.ret[1])) = call.args.size
          ELSE call.raised = "invalid mnemonic size" /\ call.ret = <<>>

\* an entropy of 224 bits was generated from random bytes that are not all
\* the same
C23_Witness ==
    /\ call.op = "Entropy.generate"
    /\ call.args.size = 224
    /\ call.raised = ""
    /\ Len(call.ret[1].value) = 28
    /\ call.ret[1].value[1] # call.ret[1].value[28]

(***************************************************************************)
(* C24: traversal order. In an image of W x H pixels (S = W * H),          *)
(* HORIZONTAL visits ordinal o at (o mod W, o div W), VERTICAL visits it   *)
(* at (o div H, o mod H), and each reverse direction visits at ordinal o   *)
(* the pixel its forward direction visits at ordinal S - 1 - o. The pixels *)
(* encode writes are the first ones of this order.                         *)
(***************************************************************************)
forward_place(W, H, direction, o) ==
    IF direction \in {HORIZONTAL, REVERSE_HORIZONTAL} THEN <<o % W, o \div W>>
    ELSE <<o \div H, o % H>>

place(W, H, direction, o) ==
    IF direction \in {HORIZONTAL, VERTICAL} THEN forward_place(W, H, direction, o)
    ELSE forward_place(W, H, direction, W * H - 1 - o)

C24_TraversalOrder ==
    LET W == image.size[1]
        H == image.size[2]
    IN  /\ \A direction \in Direction, o \in 0..(W * H - 1) :
               get_pixel(image, direction, o)
                   = <<place(W, H, direction, o), image.px[place(W, H, direction, o)]>>
        /\ Saved
           => LET items == get_modified_pixels(image, stego.message, stego.direction).items
              IN  \A n \in 1..Len(items) :
                      items[n][1] = place(W, H, stego.direction, n - 1)

\* a message of two bytes was written from bottom to top into an image of
\* 3 x 2 pixels, whose second pixel is not the one below the last
C24_Witness ==
    /\ Saved
    /\ stego.direction = REVERSE_VERTICAL
    /\ image.size = <<3, 2>>
    /\ Len(stego.message) = 2
    /\ get_pixel(image, REVERSE_VERTICAL, 1)[1] = <<2, 0>>
    /\ get_pixel(image, VERTICAL, 4)[1] = <<2, 0>>

(***************************************************************************)
(* C25: utils generate(size) takes the number of words. For 12, 15, 18, 21 *)
(* and 24 it returns a mnemonic of that many words, made of an entropy of  *)
(* 128, 160, 192, 224 and 256 bits; for every other size it raises an      *)
(* invalid-size error and returns no mnemonic.                             *)
(***************************************************************************)
C25_UtilsGenerateSize ==
    call.op = "utils.generate"
    => IF call.args.size \in AllowedWords
           THEN /\ call.raised = ""
                /\ Len(call.ret) = 1
                /\ Len(Mnemonic_value(call.ret[1])) = call.args.size
                /\ 3 * 8 * Len(call.ret[1].entropy) = 32 * call.args.size
       ELSE /\ call.raised \in {"invalid entropy size", "invalid mnemonic size"}
            /\ call.ret = <<>>

(***************************************************************************)
(* C26: integer round trip. For every buffer e of 128, 160, 192, 224 or    *)
(* 256 bits (those whose leading 32 bits or more are zero included), the   *)
(* entropy constructed from the big-endian integer value of e is e, of the *)
(* same length.                                                            *)
(***************************************************************************)
\* the last call is a constructor given the integer value of the input buffer,
\* which has an allowed size
FromInteger ==
    /\ Constructed
    /\ call.args.kind = "int"
    /\ 8 * Len(input) \in AllowedBits
    /\ Given = int_from_bytes(input)

\* the entropy the constructor returned is the input buffer
SameEntropy ==
    /\ call.raised = ""
    /\ Len(call.ret) = 1
    /\ (IF call.op = "Mnemonic" THEN call.ret[1].entropy ELSE call.ret[1].value) = input

C26_IntegerRoundTrip == FromInteger => SameEntropy

\* C26 as amended: the same, for the buffers whose leading 32 bits are not
\* all zero
C26_IntegerRoundTripAmended ==
    (FromInteger /\ \E i \in 1..4 : input[i] # 0) => SameEntropy

\* an entropy of 192 bits whose first byte is not zero and whose last bytes
\* are zero was made from its integer value
C26_Witness ==
    /\ FromInteger
    /\ call.op = "Entropy.from_value"
    /\ Len(input) = 24
    /\ input[1] # 0
    /\ input[24] = 0
    /\ SameEntropy

(***************************************************************************)
(* C27: checksum correction touches only the last word. On a sequence of   *)
(* 12, 15, 18, 21 or 24 words of the wordlist, from_value with             *)
(* fix_checksum true returns a mnemonic whose words are those given,       *)
(* except possibly the last, and the index of the last word keeps its top  *)
(* 11 - checksum_bits bits.                                                *)
(***************************************************************************)
C27_LastWordOnly ==
    (/\ FromValueCalled
     /\ call.args.fix_checksum
     /\ in_wordlist(call.args.value))
    => /\ call.raised = ""
       /\ Len(call.ret) = 1
       /\ LET given == call.args.value
              n == Len(given)
              words == Mnemonic_value(call.ret[1])
              kept == 2 ^ checksum_bits(given)
          IN  /\ Len(words) = n
              /\ \A i \in 1..(n - 1) : words[i] = given[i]
              /\ wordlist_index(words[n]).wid \div kept
                     = wordlist_index(given[n]).wid \div kept

\* 15 words with a wrong checksum were corrected: the last word changed
C27_Witness ==
    /\ FromValueCalled
    /\ call.args.fix_checksum
    /\ call.args.how = "checksum"
    /\ Len(call.args.value) = 15
    /\ call.raised = ""
    /\ Mnemonic_value(call.ret[1])[15] # call.args.value[15]
    /\ Mnemonic_value(call.ret[1])[1] # wordlist(0)

(***************************************************************************)
(* C28: a side-mnemonic never coincides with the mnemonic it hides. For    *)
(* every mnemonic and each transformation, negative and mirror, the        *)
(* mnemonic that transform returns has an entropy other than that of the   *)
(* mnemonic it was called on.                                              *)
(***************************************************************************)
C28_SideMnemonicDiffers ==
    (call.op = "Mnemonic.transform" /\ call.raised = "")
    => /\ Len(call.ret) = 1
       /\ call.ret[1].entropy # call.args.self.entropy

(***************************************************************************)
(* C29: the command decorator returns 0 only if the wrapped function       *)
(* returned normally. Whenever the function raised (TypeError, ValueError, *)
(* OSError, another Exception, or a class that is not an Exception, such   *)
(* as KeyboardInterrupt), the wrapper returned a code that is not 0 or let *)
(* the exception go on.                                                    *)
(***************************************************************************)
C29_WrapperCode ==
    (call.op = "main" /\ call.exception # "")
    => (call.code # 0 \/ call.raised)

(***************************************************************************)
(* C30: last write wins. A message of L1 >= 1 bytes is hidden in an image  *)
(* of W x H pixels and a second message of L2 >= 1 bytes is hidden in the  *)
(* image that results, in the same direction, with 3 * L1 < W * H and      *)
(* 3 * L2 < W * H: decode of the second result in that direction returns   *)
(* exactly the second message, be it shorter or longer than the first.     *)
(***************************************************************************)
Rewritten ==
    /\ revealed.op = "decode"
    /\ revealed.file = "rewritten"
    /\ Len(stego.message) >= 1
    /\ Len(call.message) >= 1
    /\ 3 * Len(stego.message) < image_size(image)
    /\ 3 * Len(call.message) < image_size(image)

C30_LastWriteWins ==
    Rewritten => revealed.result = [type |-> "bytes", value |-> call.message]

\* a message of two bytes was written over one of a single byte, whose flag
\* it covers, and the two messages differ at the first byte
C30_Witness ==
    /\ Rewritten
    /\ Len(stego.message) = 1
    /\ Len(call.message) = 2
    /\ stego.message[1] # call.message[1]

\* a message of a single byte was written over one of two bytes, whose flag
\* and second byte stay in the image
C30_WitnessShorter ==
    /\ Rewritten
    /\ Len(stego.message) = 2
    /\ Len(call.message) = 1
    /\ stego.message[1] # call.message[1]
    /\ revealed.result.value = call.message

====
